---- MODULE Spec2Model ----
(***************************************************************************)
(* Model of the metrics engine of k8s-hpa-cost-tuning:                     *)
(*   scripts/audit-metrics.mjs    (audit mode)                             *)
(*   scripts/incident-metrics.mjs (incident mode)                          *)
(*                                                                         *)
(* Three specifications share the module:                                  *)
(*   SpecWindow  - parseWindowMs / parseTimeRange applied to bounded       *)
(*                 command line values;                                    *)
(*   SpecSeries  - ratioSeries / diffSeries / statsFromMap applied to      *)
(*                 bounded Maps;                                           *)
(*   Spec        - one run of main(): validation, concurrent dispatch,     *)
(*                 the Promise.all gather, the report and the export.      *)
(***************************************************************************)
EXTENDS Integers, Sequences, FiniteSets, TLC

VARIABLES
  \* --- SpecWindow ---
  wpc,        \* "input" before parseTimeRange ran, "resolved" after
  wargs,      \* [from, to, window]: the values parseArgs hands over
  wnow,       \* the instant new Date() yields when --to is absent
  wdefault,   \* the mode's default --window ("24h" audit, "30m" incident)
  wrange,     \* what parseTimeRange returned or threw
  \* --- SpecSeries ---
  spc,        \* "input" | "done"
  mapA,       \* first Map operand (insertion-ordered entries)
  mapB,       \* second Map operand
  mult,       \* multiplier of ratioSeries
  ratioOut,   \* ratioSeries(mapA, mapB, mult)
  diffOut,    \* diffSeries(mapA, mapB)
  statsOut,   \* statsFromMap(mapA)
  \* --- Spec: one run of main() (window values: wargs, wnow, wdefault, wrange) ---
  pc,         \* "start" | "gather" | "writing" | "done" | "exited"
  mode,       \* "audit" | "incident": which script runs
  env,        \* [apiKey, appKey]: whether DD_API_KEY / DD_APP_KEY are set
  args,       \* [help, cluster, deployment, out]: the values parseArgs hands over
  queries,    \* the catalog: the logical names, in the order of Object.entries
  req,        \* per catalog name: "inflight" | "resolved" | "failed"
  stdout,     \* the lines console.log printed
  stderr,     \* the lines console.error printed
  exitCode,   \* -1 while the process runs, then its exit code
  exported,   \* whether fs.writeFile wrote the --out file
  sent,       \* the catalog names fetch was called for, in call order
  \* --- SpecAggregate: one call of aggregateSeriesByTimestamp ---
  gpc,        \* "idle" | "input" | "aggregated"
  series,     \* payload.series: the pointlist of each tagged series
  points,     \* the Map aggregateSeriesByTimestamp returns
  \* --- SpecReport: main() after the gather (with pc, mode, args, stdout) ---
  raw,        \* per catalog name, the Map its query returned
  derived,    \* const derived: per derived name, its Map
  summaryMetrics, \* summary.metrics: per metric name, its stats
  capacityPlan, \* summary.capacityPlanning (incident script)
  printed,    \* what the printLine calls printed, in order
  \* --- SpecPeak: peakRatioDetails(mapA, mapB, mult) ---
  peakOut,    \* what peakRatioDetails returns
  \* --- SpecPure: the Map objects of a run and the calls made on them ---
  heap,       \* the Map objects alive, by identity (1..Len): their entries
  calls,      \* the calls made so far: function, operands, what they held, result
  collected,  \* the entries the orchestrator collected into the raw Maps
  \* --- SpecGather: the values of the per-query promises ---
  settled     \* per catalog index: [name, points] once its promise fulfilled

wvars == <<wpc, wargs, wnow, wdefault, wrange>>
svars == <<spc, mapA, mapB, mult, ratioOut, diffOut, statsOut>>
rvars == <<pc, mode, env, args, queries, req, stdout, stderr, exitCode, exported, sent>>
gvars == <<gpc, series, points>>
pvars == <<raw, derived, summaryMetrics, capacityPlan, printed>>
kvars == <<peakOut>>
hvars == <<heap, calls, collected>>
evars == <<settled>>
xvars == <<gvars, pvars, kvars, hvars, evars>>
vars == <<wvars, svars, rvars, xvars>>

(***************************************************************************)
(* Date time values.  A JS Date holds an integer number of milliseconds    *)
(* with |t| <= 8.64e15, or NaN (Invalid Date).  The milliseconds are kept  *)
(* exactly, in two limbs: t = d * MS_PER_DAY + ms with 0 <= ms <           *)
(* MS_PER_DAY, so that every limb stays inside TLC's integers.             *)
(***************************************************************************)
MS_PER_MINUTE == 60000
MS_PER_HOUR == 3600000
MS_PER_DAY == 86400000

\* The Date range: 100,000,000 days either side of the epoch.
MaxTimeDays == 100000000

Time(d, ms) == [nan |-> FALSE, d |-> d, ms |-> ms]
InvalidDate == [nan |-> TRUE, d |-> 0, ms |-> 0]

\* TimeClip: a time value outside the Date range becomes NaN.
TimeClip(t) ==
  IF t.nan THEN InvalidDate
  ELSE IF t.d > MaxTimeDays \/ (t.d = MaxTimeDays /\ t.ms > 0) \/ t.d < -MaxTimeDays
       THEN InvalidDate
       ELSE t

\* a < b on time values; every comparison with NaN is false.
TimeLt(a, b) ==
  /\ ~a.nan
  /\ ~b.nan
  /\ (a.d < b.d \/ (a.d = b.d /\ a.ms < b.ms))

\* a >= b on time values; every comparison with NaN is false.
TimeGe(a, b) ==
  /\ ~a.nan
  /\ ~b.nan
  /\ ~(a.d < b.d \/ (a.d = b.d /\ a.ms < b.ms))

\* A duration in milliseconds, two limbs, or null (no regex match).
Millis(d, ms) == [null |-> FALSE, d |-> d, ms |-> ms]
NullMs == [null |-> TRUE, d |-> 0, ms |-> 0]

\* value * unitMs, exactly; unitMs divides MS_PER_DAY.
MulMs(value, unitMs) ==
  LET perDay == MS_PER_DAY \div unitMs
  IN  Millis(value \div perDay, (value % perDay) * unitMs)

\* end.getTime() - windowMs, before new Date() clips it.
TimeMinus(t, w) ==
  IF t.ms >= w.ms
  THEN Time(t.d - w.d, t.ms - w.ms)
  ELSE Time(t.d - w.d - 1, t.ms - w.ms + MS_PER_DAY)

(***************************************************************************)
(* Command line values.  parseArgs yields, per key, undefined (the key is  *)
(* absent), true (the key has no value) or a string.  A string is a        *)
(* sequence of characters; a date string carries what Date.parse gives     *)
(* for it.                                                                 *)
(***************************************************************************)
Undefined == [kind |-> "undefined", chars |-> <<>>, parse |-> InvalidDate]
FlagTrue == [kind |-> "true", chars |-> <<>>, parse |-> InvalidDate]
Str(chars) == [kind |-> "string", chars |-> chars, parse |-> InvalidDate]
DateStr(text, t) == [kind |-> "string", chars |-> <<text>>, parse |-> t]

\* JS truthiness of such a value.
Truthy(x) == x.kind = "true" \/ (x.kind = "string" /\ Len(x.chars) > 0)

\* new Date(x) for a truthy x: ToNumber(true) = 1 ms; a string is parsed.
NewDate(x) ==
  IF x.kind = "true" THEN Time(0, 1) ELSE TimeClip(x.parse)

Digits == <<"0", "1", "2", "3", "4", "5", "6", "7", "8", "9">>
IsDigit(c) == \E i \in 1..10 : Digits[i] = c
DigitVal(c) == (CHOOSE i \in 1..10 : Digits[i] = c) - 1
IsSpace(c) == c = " "

\* String(input || '') of parseWindowMs.
ToStringChars(x) ==
  IF x.kind = "true" THEN <<"t", "r", "u", "e">>
  ELSE IF x.kind = "string" THEN x.chars
  ELSE <<>>

\* String.prototype.trim
RECURSIVE TrimLeft(_)
TrimLeft(s) ==
  IF s # <<>> /\ IsSpace(Head(s)) THEN TrimLeft(Tail(s)) ELSE s

RECURSIVE TrimRight(_)
TrimRight(s) ==
  IF s # <<>> /\ IsSpace(s[Len(s)]) THEN TrimRight(SubSeq(s, 1, Len(s) - 1)) ELSE s

Trim(s) == TrimRight(TrimLeft(s))

\* Number(match[1]) for a string of decimal digits.
RECURSIVE DecimalValue(_)
DecimalValue(s) ==
  IF s = <<>> THEN 0
  ELSE DecimalValue(SubSeq(s, 1, Len(s) - 1)) * 10 + DigitVal(s[Len(s)])

\* /^(\d+)([mhd])$/ applied to s.
WindowMatches(s) ==
  /\ Len(s) >= 2
  /\ s[Len(s)] \in {"m", "h", "d"}
  /\ \A i \in 1..(Len(s) - 1) : IsDigit(s[i])

(***************************************************************************)
(* parseWindowMs and parseTimeRange (the same text in both scripts; only   *)
(* the default window differs).                                            *)
(***************************************************************************)
parseWindowMs_hoursAsMinutes(input) ==
  LET s == Trim(ToStringChars(input))
  IN  IF ~WindowMatches(s) THEN NullMs
      ELSE LET value == DecimalValue(SubSeq(s, 1, Len(s) - 1))
               unit == s[Len(s)]
           IN  IF unit = "m" THEN MulMs(value, MS_PER_MINUTE)
               ELSE IF unit = "h" THEN MulMs(value, MS_PER_MINUTE)
               ELSE MulMs(value, MS_PER_DAY)

parseWindowMs(input) ==
  LET s == Trim(ToStringChars(input))
  IN  IF ~WindowMatches(s) THEN NullMs
      ELSE LET value == DecimalValue(SubSeq(s, 1, Len(s) - 1))
               unit == s[Len(s)]
           IN  IF unit = "m" THEN MulMs(value, MS_PER_MINUTE)
               ELSE IF unit = "h" THEN MulMs(value, MS_PER_HOUR)
               ELSE MulMs(value, MS_PER_DAY)

\* !windowMs: null and 0 are both falsy.
FalsyMs(w) == w.null \/ (w.d = 0 /\ w.ms = 0)

Thrown(msg) == [threw |-> TRUE, error |-> msg, start |-> InvalidDate, end |-> InvalidDate]
Returned(start, end) == [threw |-> FALSE, error |-> "", start |-> start, end |-> end]
NoRange == [threw |-> FALSE, error |-> "none", start |-> InvalidDate, end |-> InvalidDate]

parseTimeRange_windowWins(a, dflt, now) ==
  LET end == IF Truthy(a.to) THEN NewDate(a.to) ELSE now
  IN  IF end.nan THEN Thrown("Invalid --to value")
      ELSE IF Truthy(a.from) /\ ~Truthy(a.window)
      THEN LET start == NewDate(a.from)
           IN  IF start.nan THEN Thrown("Invalid --from value")
               ELSE IF TimeGe(start, end) THEN Thrown("--from must be before --to")
               ELSE Returned(start, end)
      ELSE LET windowMs == parseWindowMs(IF Truthy(a.window) THEN a.window ELSE dflt)
           IN  IF FalsyMs(windowMs) THEN Thrown("Invalid --window value")
               ELSE Returned(TimeClip(TimeMinus(end, windowMs)), end)

parseTimeRange_noOrderCheck(a, dflt, now) ==
  LET end == IF Truthy(a.to) THEN NewDate(a.to) ELSE now
  IN  IF end.nan THEN Thrown("Invalid --to value")
      ELSE IF Truthy(a.from)
      THEN LET start == NewDate(a.from)
           IN  IF start.nan THEN Thrown("Invalid --from value")
               ELSE Returned(start, end)
      ELSE LET windowMs == parseWindowMs(IF Truthy(a.window) THEN a.window ELSE dflt)
           IN  IF FalsyMs(windowMs) THEN Thrown("Invalid --window value")
               ELSE Returned(TimeClip(TimeMinus(end, windowMs)), end)

parseTimeRange(a, dflt, now) ==
  LET end == IF Truthy(a.to) THEN NewDate(a.to) ELSE now
  IN  IF end.nan THEN Thrown("Invalid --to value")
      ELSE IF Truthy(a.from)
      THEN LET start == NewDate(a.from)
           IN  IF start.nan THEN Thrown("Invalid --from value")
               ELSE IF TimeGe(start, end) THEN Thrown("--from must be before --to")
               ELSE Returned(start, end)
      ELSE LET windowMs == parseWindowMs(IF Truthy(a.window) THEN a.window ELSE dflt)
           IN  IF FalsyMs(windowMs) THEN Thrown("Invalid --window value")
               ELSE Returned(TimeClip(TimeMinus(end, windowMs)), end)

\* The default --window of each script.
AuditDefaultWindow == Str(<<"2", "4", "h">>)
IncidentDefaultWindow == Str(<<"3", "0", "m">>)

(***************************************************************************)
(* Each specification studies one part and holds the others still.         *)
(***************************************************************************)
WindowIdle ==
  /\ wpc = "idle"
  /\ wargs = [from |-> Undefined, to |-> Undefined, window |-> Undefined]
  /\ wnow = Time(0, 0)
  /\ wdefault = AuditDefaultWindow
  /\ wrange = NoRange

SeriesIdle ==
  /\ spc = "idle"
  /\ mapA = <<>>
  /\ mapB = <<>>
  /\ mult = [cls |-> "fin", k |-> 0]
  /\ ratioOut = <<>>
  /\ diffOut = <<>>
  /\ statsOut = <<>>

RunIdle ==
  /\ pc = "idle"
  /\ mode = "audit"
  /\ env = [apiKey |-> FALSE, appKey |-> FALSE]
  /\ args = <<>>
  /\ queries = <<>>
  /\ req = <<>>
  /\ stdout = <<>>
  /\ stderr = <<>>
  /\ exitCode = -1
  /\ exported = FALSE
  /\ sent = <<>>

AggregateIdle ==
  /\ gpc = "idle"
  /\ series = <<>>
  /\ points = <<>>

ReportIdle ==
  /\ raw = <<>>
  /\ derived = <<>>
  /\ summaryMetrics = <<>>
  /\ capacityPlan = <<>>
  /\ printed = <<>>

PeakIdle == peakOut = <<>>

PureIdle ==
  /\ heap = <<>>
  /\ calls = <<>>
  /\ collected = <<>>

GatherIdle == settled = <<>>

ExtraIdle ==
  /\ AggregateIdle
  /\ ReportIdle
  /\ PeakIdle
  /\ PureIdle
  /\ GatherIdle


(***************************************************************************)
(* Inputs of SpecWindow.                                                   *)
(***************************************************************************)
\* Longest run of digits of the enumerated --window values.
MaxDigits == 2

DigitStrings ==
  UNION {[1..n -> {"0", "1", "3"}] : n \in 1..MaxDigits}

WindowVals ==
  {Str(ds \o <<u>>) : ds \in DigitStrings, u \in {"m", "h", "d"}}
    \cup { Undefined, FlagTrue, Str(<<>>),
           Str(<<"5", "x">>), Str(<<"h">>), Str(<<"1", "0">>),
           Str(<<"1", ".", "5", "h">>), Str(<<"-", "1", "h">>),
           Str(<<"2", "H">>), Str(<<" ", "2", "h", " ">>),
           Str(<<"7", "d">>),
           Str(<<"2", "0", "0", "0", "0", "0", "0", "0", "0", "d">>) }

DateVals ==
  { Undefined, FlagTrue, Str(<<>>),
    DateStr("not-a-date", InvalidDate),
    DateStr("275760-09-14T00:00:00Z", Time(MaxTimeDays + 1, 0)),
    DateStr("1970-01-02T00:00:00Z", Time(1, 0)),
    DateStr("1970-01-03T12:00:00Z", Time(2, 43200000)),
    DateStr("2026-02-10T23:00:00Z", Time(20494, 82800000)) }

NowVals == { Time(20761, 1000) }

WInit ==
  /\ wpc = "input"
  /\ wargs \in [from : DateVals, to : DateVals, window : WindowVals]
  /\ wnow \in NowVals
  /\ wdefault \in {AuditDefaultWindow, IncidentDefaultWindow}
  /\ wrange = NoRange
  /\ SeriesIdle
  /\ RunIdle
  /\ ExtraIdle

\* main: const { start, end } = parseTimeRange({ from, to, window })
Resolve ==
  /\ wpc = "input"
  /\ wrange' = parseTimeRange(wargs, wdefault, wnow)
  /\ wpc' = "resolved"
  /\ UNCHANGED <<wargs, wnow, wdefault>>
  /\ UNCHANGED <<svars, rvars, xvars>>

SpecWindow == WInit /\ [][Resolve]_vars

(***************************************************************************)
(* Claims about the time window (checked under SpecWindow).                *)
(***************************************************************************)
\* The end instant parseTimeRange works with: --to when given, else now.
WEnd == IF Truthy(wargs.to) THEN NewDate(wargs.to) ELSE wnow

\* The relative duration in force: --window when given, else the default.
WWindowChars ==
  Trim(ToStringChars(IF Truthy(wargs.window) THEN wargs.window ELSE wdefault))

WWindowValue == DecimalValue(SubSeq(WWindowChars, 1, Len(WWindowChars) - 1))

\* The duration the window text denotes: m = 60000 ms, h = 3600000 ms,
\* d = 86400000 ms per unit.
WWindowDuration ==
  LET unit == WWindowChars[Len(WWindowChars)]
  IN  MulMs(WWindowValue,
            IF unit = "m" THEN MS_PER_MINUTE
            ELSE IF unit = "h" THEN MS_PER_HOUR
            ELSE MS_PER_DAY)

WExplicitPair ==
  /\ Truthy(wargs.from)
  /\ Truthy(wargs.to)
  /\ TimeLt(NewDate(wargs.from), NewDate(wargs.to))

\* C1: for every explicit pair (from, to) of valid instants with from < to,
\* parseTimeRange returns exactly {start: from, end: to}, whatever --window is.
C1_ExplicitPairUnchanged ==
  (wpc = "resolved" /\ WExplicitPair)
    => wrange = Returned(NewDate(wargs.from), NewDate(wargs.to))

C1_Witness ==
  /\ wpc = "resolved"
  /\ WExplicitPair
  /\ wargs.window = Str(<<"7", "d">>)
  /\ wargs.from.kind = "string"
  /\ wrange = Returned(Time(1, 0), Time(2, 43200000))

WRelative ==
  /\ wpc = "resolved"
  /\ ~Truthy(wargs.from)
  /\ ~WEnd.nan
  /\ WindowMatches(WWindowChars)

\* C2 as stated: for every duration <integer><unit> (every non-negative
\* integer, 0 included) and a fixed end, with no explicit start the resolver
\* succeeds and returns start = end - duration exactly.
C2_EveryDurationResolves ==
  WRelative =>
    /\ ~wrange.threw
    /\ wrange.start = TimeMinus(WEnd, WWindowDuration)
    /\ wrange.end = WEnd

\* C2 amended: for every duration <integer><unit> with integer >= 1 and a
\* fixed end, with no explicit start the resolver succeeds and returns the
\* given end and start = end - duration exactly when that instant is inside
\* the Date range, the invalid instant when it is not; a duration of 0 is
\* rejected with the invalid-window error.
C2_PositiveDurationResolves ==
  WRelative =>
    IF WWindowValue >= 1
    THEN /\ ~wrange.threw
         /\ wrange.end = WEnd
         /\ wrange.start = TimeClip(TimeMinus(WEnd, WWindowDuration))
    ELSE /\ wrange.threw
         /\ wrange.error = "Invalid --window value"

C2_Witness ==
  /\ WRelative
  /\ wargs.window = Str(<<"3", "h">>)
  /\ wargs.to = DateStr("1970-01-02T00:00:00Z", Time(1, 0))
  /\ wrange = Returned(Time(0, 75600000), Time(1, 0))

\* C3: every TimeWindow parseTimeRange returns, on the explicit path and on
\* the relative path alike, satisfies start < end.
C3_StartBeforeEnd ==
  (wpc = "resolved" /\ ~wrange.threw) => TimeLt(wrange.start, wrange.end)

\* C4: parseTimeRange throws, returning no window, whenever (a) an explicit
\* start is given that is no valid instant, (b) an explicit start is given
\* with start >= end, or (c) no explicit start is given and the relative
\* duration does not match <integer><m|h|d>.
C4_InvalidWindowThrows ==
  wpc = "resolved" =>
    /\ (Truthy(wargs.from) /\ NewDate(wargs.from).nan) => wrange.threw
    /\ (Truthy(wargs.from) /\ TimeGe(NewDate(wargs.from), WEnd)) => wrange.threw
    /\ (~Truthy(wargs.from) /\ ~WindowMatches(WWindowChars)) => wrange.threw
    /\ wrange.threw =>
         wrange.error \in { "Invalid --to value", "Invalid --from value",
                            "--from must be before --to", "Invalid --window value" }

C4_Witness ==
  /\ wpc = "resolved"
  /\ wargs.from = DateStr("1970-01-03T12:00:00Z", Time(2, 43200000))
  /\ wargs.to = DateStr("1970-01-02T00:00:00Z", Time(1, 0))
  /\ wrange = Thrown("--from must be before --to")

(***************************************************************************)
(* JS Numbers held by the series.  A Number is NaN, +Infinity, -Infinity   *)
(* or a finite binary floating-point value; arithmetic rounds to nearest,  *)
(* ties to even, and overflows to an infinity, as IEEE 754 does.  The      *)
(* width is reduced: a finite value is k * 2^-FractionBits where the       *)
(* integer |k| has at most MantissaBits significant bits and               *)
(* |k| <= MaxK.  (binary64 has 53 significant bits.)  -0 is not told       *)
(* apart from 0: the code compares with === and <, which do not either.    *)
(***************************************************************************)
MantissaBits == 5
FractionBits == 6
MaxShift == 11

Unit == 2^FractionBits
MaxK == (2^MantissaBits - 1) * 2^MaxShift

Fin(k) == [cls |-> "fin", k |-> k]
NaN == [cls |-> "nan", k |-> 0]
PosInf == [cls |-> "inf", k |-> 0]
NegInf == [cls |-> "ninf", k |-> 0]

Abs(i) == IF i < 0 THEN -i ELSE i
Sgn(i) == IF i < 0 THEN -1 ELSE 1

\* How far n's leading bit is above the mantissa: the spacing of the
\* representable values around n is 2^ShiftOf(n).
RECURSIVE ShiftOf(_)
ShiftOf(n) == IF n < 2^MantissaBits THEN 0 ELSE 1 + ShiftOf(n \div 2)

\* The representable magnitude nearest to p/q (p >= 0, q > 0), ties to even.
RoundMag(p, q) ==
  LET n == p \div q
      sp == 2^ShiftOf(n)
      low == (n \div sp) * sp
      excess == (n - low) * q + (p % q)
  IN  IF 2 * excess < sp * q THEN low
      ELSE IF 2 * excess > sp * q THEN low + sp
      ELSE IF (n \div sp) % 2 = 0 THEN low ELSE low + sp

\* sign * p/q rounded to a Number.
Round(sign, p, q) ==
  LET r == RoundMag(p, q)
  IN  IF r > MaxK THEN (IF sign < 0 THEN NegInf ELSE PosInf) ELSE Fin(sign * r)

\* The Number nearest to the integer n, and to the fraction n/d (d > 0).
Lit(n) == Round(Sgn(n), Abs(n) * Unit, 1)
LitQ(n, d) == Round(Sgn(n), Abs(n) * Unit, d)

IsFinite(a) == a.cls = "fin"
IsZero(a) == a.cls = "fin" /\ a.k = 0
IsNegative(a) == a.cls = "ninf" \/ (a.cls = "fin" /\ a.k < 0)

FNeg(a) ==
  IF a.cls = "fin" THEN Fin(-a.k)
  ELSE IF a.cls = "inf" THEN NegInf
  ELSE IF a.cls = "ninf" THEN PosInf
  ELSE NaN

\* a + b
FAdd(a, b) ==
  IF a.cls = "nan" \/ b.cls = "nan" THEN NaN
  ELSE IF a.cls = "fin" /\ b.cls = "fin"
       THEN Round(Sgn(a.k + b.k), Abs(a.k + b.k), 1)
  ELSE IF a.cls = "fin" THEN b
  ELSE IF b.cls = "fin" THEN a
  ELSE IF a.cls = b.cls THEN a
  ELSE NaN

\* a - b
FSub(a, b) == FAdd(a, FNeg(b))

\* a * b
FMul(a, b) ==
  IF a.cls = "nan" \/ b.cls = "nan" THEN NaN
  ELSE IF a.cls = "fin" /\ b.cls = "fin"
       THEN LET sign == Sgn(a.k) * Sgn(b.k)
            IN  IF b.k # 0 /\ Abs(a.k) > (2 * MaxK * Unit) \div Abs(b.k)
                THEN (IF sign < 0 THEN NegInf ELSE PosInf)
                ELSE Round(sign, Abs(a.k) * Abs(b.k), Unit)
  ELSE IF IsZero(a) \/ IsZero(b) THEN NaN
  ELSE IF IsNegative(a) = IsNegative(b) THEN PosInf
  ELSE NegInf

\* a / b
FDiv(a, b) ==
  IF a.cls = "nan" \/ b.cls = "nan" THEN NaN
  ELSE IF a.cls = "fin" /\ b.cls = "fin"
       THEN IF b.k = 0
            THEN (IF a.k = 0 THEN NaN ELSE IF a.k < 0 THEN NegInf ELSE PosInf)
            ELSE Round(Sgn(a.k) * Sgn(b.k), Abs(a.k) * Unit, Abs(b.k))
  ELSE IF a.cls = "fin" THEN Fin(0)
  ELSE IF b.cls # "fin" THEN NaN
  ELSE IF IsNegative(a) = IsNegative(b) THEN PosInf
  ELSE NegInf

\* a < b; false when either is NaN.
FLt(a, b) ==
  /\ a.cls # "nan"
  /\ b.cls # "nan"
  /\ a # b
  /\ \/ a.cls = "ninf"
     \/ b.cls = "inf"
     \/ (a.cls = "fin" /\ b.cls = "fin" /\ a.k < b.k)

\* a <= b; false when either is NaN.
FLe(a, b) == a.cls # "nan" /\ b.cls # "nan" /\ (a = b \/ FLt(a, b))

(***************************************************************************)
(* Maps.  A JS Map iterates in insertion order: it is the sequence of its  *)
(* entries, with no timestamp twice.                                       *)
(***************************************************************************)
Entry(ts, val) == [ts |-> ts, val |-> val]
EmptyMap == <<>>
MapHas(map, ts) == \E i \in 1..Len(map) : map[i].ts = ts
MapGet(map, ts) == map[CHOOSE i \in 1..Len(map) : map[i].ts = ts].val
MapKeys(map) == {map[i].ts : i \in 1..Len(map)}

\* map.set(ts, val): an existing key keeps its place.
MapSet(map, ts, val) ==
  IF MapHas(map, ts)
  THEN [i \in 1..Len(map) |-> IF map[i].ts = ts THEN Entry(ts, val) ELSE map[i]]
  ELSE Append(map, Entry(ts, val))

\* [...map.entries()].sort((a, b) => a[0] - b[0])
RECURSIVE InsertByTs(_, _)
InsertByTs(sorted, e) ==
  IF sorted = <<>> THEN <<e>>
  ELSE IF e.ts < Head(sorted).ts THEN <<e>> \o sorted
  ELSE <<Head(sorted)>> \o InsertByTs(Tail(sorted), e)

RECURSIVE mapToSortedEntries(_)
mapToSortedEntries(map) ==
  IF map = <<>> THEN <<>>
  ELSE InsertByTs(mapToSortedEntries(SubSeq(map, 1, Len(map) - 1)), map[Len(map)])

(***************************************************************************)
(* ratioSeries, diffSeries, statsFromMap.                                  *)
(***************************************************************************)
\* The loop of ratioSeries over numeratorMap.entries(), from entry i on.
RECURSIVE ratioLoop(_, _, _, _, _)
ratioLoop(i, numeratorMap, denominatorMap, multiplier, output) ==
  IF i > Len(numeratorMap) THEN output
  ELSE LET ts == numeratorMap[i].ts
           numerator == numeratorMap[i].val
       IN  IF ~MapHas(denominatorMap, ts) \/ IsZero(MapGet(denominatorMap, ts))
           THEN ratioLoop(i + 1, numeratorMap, denominatorMap, multiplier, output)
           ELSE ratioLoop(i + 1, numeratorMap, denominatorMap, multiplier,
                          MapSet(output, ts,
                                 FMul(FDiv(numerator, MapGet(denominatorMap, ts)),
                                      multiplier)))

\* The same loop without the `denominator === 0` test.
RECURSIVE ratioLoop_keepsZero(_, _, _, _, _)
ratioLoop_keepsZero(i, numeratorMap, denominatorMap, multiplier, output) ==
  IF i > Len(numeratorMap) THEN output
  ELSE LET ts == numeratorMap[i].ts
           numerator == numeratorMap[i].val
       IN  IF ~MapHas(denominatorMap, ts)
           THEN ratioLoop_keepsZero(i + 1, numeratorMap, denominatorMap, multiplier, output)
           ELSE ratioLoop_keepsZero(i + 1, numeratorMap, denominatorMap, multiplier,
                          MapSet(output, ts,
                                 FMul(FDiv(numerator, MapGet(denominatorMap, ts)),
                                      multiplier)))

ratioSeries_keepsZero(numeratorMap, denominatorMap, multiplier) ==
  ratioLoop_keepsZero(1, numeratorMap, denominatorMap, multiplier, EmptyMap)

ratioSeries(numeratorMap, denominatorMap, multiplier) ==
  ratioLoop(1, numeratorMap, denominatorMap, multiplier, EmptyMap)

\* The loop of diffSeries over aMap.entries(), from entry i on.
RECURSIVE diffLoop(_, _, _, _)
diffLoop(i, aMap, bMap, output) ==
  IF i > Len(aMap) THEN output
  ELSE LET ts == aMap[i].ts
           aVal == aMap[i].val
       IN  IF ~MapHas(bMap, ts)
           THEN diffLoop(i + 1, aMap, bMap, output)
           ELSE diffLoop(i + 1, aMap, bMap,
                         MapSet(output, ts, FSub(aVal, MapGet(bMap, ts))))

\* diffSeries with ratioSeries' zero test copied into it.
RECURSIVE diffLoop_dropsZero(_, _, _, _)
diffLoop_dropsZero(i, aMap, bMap, output) ==
  IF i > Len(aMap) THEN output
  ELSE LET ts == aMap[i].ts
           aVal == aMap[i].val
       IN  IF ~MapHas(bMap, ts) \/ IsZero(MapGet(bMap, ts))
           THEN diffLoop_dropsZero(i + 1, aMap, bMap, output)
           ELSE diffLoop_dropsZero(i + 1, aMap, bMap,
                         MapSet(output, ts, FSub(aVal, MapGet(bMap, ts))))

diffSeries_dropsZero(aMap, bMap) == diffLoop_dropsZero(1, aMap, bMap, EmptyMap)

diffSeries(aMap, bMap) == diffLoop(1, aMap, bMap, EmptyMap)

\* entries.map(([, v]) => v)
ValuesOf(entries) == [i \in 1..Len(entries) |-> entries[i].val]

\* values.reduce((acc, v) => acc + v, 0)
RECURSIVE SumOf(_)
SumOf(values) ==
  IF values = <<>> THEN Lit(0)
  ELSE FAdd(SumOf(SubSeq(values, 1, Len(values) - 1)), values[Len(values)])

\* Math.min(...values) and Math.max(...values) of finite values.
MathMin(values) ==
  values[CHOOSE i \in 1..Len(values) : \A j \in 1..Len(values) : ~FLt(values[j], values[i])]
MathMax(values) ==
  values[CHOOSE i \in 1..Len(values) : \A j \in 1..Len(values) : ~FLt(values[i], values[j])]

NullStats ==
  [null |-> TRUE, samples |-> 0, min |-> NaN, avg |-> NaN, max |-> NaN, last |-> NaN]

StatsOfValues(values) ==
  IF Len(values) = 0 THEN NullStats
  ELSE [ null |-> FALSE,
         samples |-> Len(values),
         min |-> MathMin(values),
         avg |-> FDiv(SumOf(values), Lit(Len(values))),
         max |-> MathMax(values),
         last |-> values[Len(values)] ]

\* statsFromMap that forgets the sort: values in insertion order.
statsFromMap_insertionOrder(map) ==
  StatsOfValues(SelectSeq(ValuesOf(map), IsFinite))

\* statsFromMap that returns null when the values sum to nothing.
statsFromMap_nullOnZeroSum(map) ==
  LET values == SelectSeq(ValuesOf(mapToSortedEntries(map)), IsFinite)
  IN  IF IsZero(SumOf(values)) THEN NullStats ELSE StatsOfValues(values)

statsFromMap(map) ==
  StatsOfValues(SelectSeq(ValuesOf(mapToSortedEntries(map)), IsFinite))

(***************************************************************************)
(* Inputs of SpecAlgebra and SpecStats.                                    *)
(***************************************************************************)
\* Timestamps are 1..NumTs; a Map under statsFromMap holds at most MaxLen
\* entries, an operand of ratioSeries / diffSeries at most MaxPairLen.
NumTs == 3
MaxLen == 3
MaxPairLen == 2

Timestamps == 1..NumTs

\* Every Map with keys in Timestamps, values in vals and at most n entries,
\* in every insertion order.
OrderedMaps(vals, n) ==
  { s \in UNION {[1..k -> [ts : Timestamps, val : vals]] : k \in 0..n} :
      \A i, j \in 1..Len(s) : i < j => s[i].ts # s[j].ts }

\* The same Maps, inserted in ascending timestamp order only.
SortedMaps(vals, n) ==
  { s \in OrderedMaps(vals, n) :
      \A i, j \in 1..Len(s) : i < j => s[i].ts < s[j].ts }

NumeratorVals == { Lit(1), Lit(3), PosInf }
DenominatorVals == { Lit(0), Lit(2), NaN }
MultiplierVals == { Lit(1), Lit(100) }
StatVals == { Lit(0), Lit(13), Lit(-2), NaN, PosInf }

AInit ==
  /\ spc = "input"
  /\ mapA \in OrderedMaps(NumeratorVals, MaxPairLen)
  /\ mapB \in SortedMaps(DenominatorVals, MaxPairLen)
  /\ mult \in MultiplierVals
  /\ ratioOut = EmptyMap
  /\ diffOut = EmptyMap
  /\ statsOut = NullStats
  /\ WindowIdle
  /\ RunIdle
  /\ ExtraIdle

SInit ==
  /\ spc = "input"
  /\ mapA \in OrderedMaps(StatVals, MaxLen)
  /\ mapB = EmptyMap
  /\ mult = Lit(1)
  /\ ratioOut = EmptyMap
  /\ diffOut = EmptyMap
  /\ statsOut = NullStats
  /\ WindowIdle
  /\ RunIdle
  /\ ExtraIdle

\* ratioSeries(mapA, mapB, mult)
ApplyRatio ==
  /\ spc = "input"
  /\ ratioOut' = ratioSeries(mapA, mapB, mult)
  /\ spc' = "ratio"
  /\ UNCHANGED <<mapA, mapB, mult, diffOut, statsOut>>
  /\ UNCHANGED <<wvars, rvars, xvars>>

\* diffSeries(mapA, mapB)
ApplyDiff ==
  /\ spc = "input"
  /\ diffOut' = diffSeries(mapA, mapB)
  /\ spc' = "diff"
  /\ UNCHANGED <<mapA, mapB, mult, ratioOut, statsOut>>
  /\ UNCHANGED <<wvars, rvars, xvars>>

\* statsFromMap(mapA)
ApplyStats ==
  /\ spc = "input"
  /\ statsOut' = statsFromMap(mapA)
  /\ spc' = "stats"
  /\ UNCHANGED <<mapA, mapB, mult, ratioOut, diffOut>>
  /\ UNCHANGED <<wvars, rvars, xvars>>

SpecAlgebra == AInit /\ [][ApplyRatio \/ ApplyDiff]_vars
SpecStats == SInit /\ [][ApplyStats]_vars

(***************************************************************************)
(* Claims about the series algebra (checked under SpecAlgebra).            *)
(***************************************************************************)
\* No timestamp twice: the sequence is a Map.
IsMap(map) == \A i, j \in 1..Len(map) : i < j => map[i].ts # map[j].ts

\* C5: ratioSeries(a, b, m) has as its timestamp set exactly the t that are
\* in a and in b with b[t] != 0, and maps each to (a[t] / b[t]) * m.
C5_RatioDomainAndValues ==
  spc = "ratio" =>
    /\ IsMap(ratioOut)
    /\ MapKeys(ratioOut) =
         { t \in Timestamps :
             MapHas(mapA, t) /\ MapHas(mapB, t) /\ ~IsZero(MapGet(mapB, t)) }
    /\ \A t \in MapKeys(ratioOut) :
         MapGet(ratioOut, t) = FMul(FDiv(MapGet(mapA, t), MapGet(mapB, t)), mult)

C5_Witness ==
  /\ spc = "ratio"
  /\ mapA = <<Entry(2, Lit(1)), Entry(1, Lit(3))>>
  /\ mapB = <<Entry(1, Lit(0)), Entry(2, Lit(2))>>
  /\ mult = Lit(100)
  /\ ratioOut = <<Entry(2, Lit(50))>>

\* C6: the timestamp set of diffSeries(a, b) is exactly the intersection of
\* a's and b's timestamp sets, each t mapped to a[t] - b[t]; a b-value of 0
\* is kept.
C6_DiffDomainAndValues ==
  spc = "diff" =>
    /\ IsMap(diffOut)
    /\ MapKeys(diffOut) = MapKeys(mapA) \cap MapKeys(mapB)
    /\ \A t \in MapKeys(diffOut) :
         MapGet(diffOut, t) = FSub(MapGet(mapA, t), MapGet(mapB, t))

C6_Witness ==
  /\ spc = "diff"
  /\ mapA = <<Entry(3, Lit(1)), Entry(1, Lit(3))>>
  /\ mapB = <<Entry(1, Lit(0)), Entry(2, Lit(2))>>
  /\ diffOut = <<Entry(1, Lit(3))>>

(***************************************************************************)
(* Claims about statsFromMap (checked under SpecStats).                    *)
(***************************************************************************)
MaxKey(keys) == CHOOSE t \in keys : \A u \in keys : u <= t

FiniteKeys(map) == { t \in MapKeys(map) : IsFinite(MapGet(map, t)) }

\* The finite values of the series, by ascending timestamp.
FiniteValues(map) == SelectSeq(ValuesOf(mapToSortedEntries(map)), IsFinite)

\* C7 as stated: whenever statsFromMap returns stats, last is the value
\* stored at the maximum timestamp key of the series, whatever the insertion
\* order and whichever entries hold non-finite values.
C7_LastIsValueAtMaxKey ==
  (spc = "stats" /\ ~statsOut.null)
    => statsOut.last = MapGet(mapA, MaxKey(MapKeys(mapA)))

\* C7 amended: whenever statsFromMap returns stats, last is the value stored
\* at the maximum timestamp key among the entries that hold a finite value,
\* whatever the insertion order.
C7_LastIsValueAtMaxFiniteKey ==
  (spc = "stats" /\ ~statsOut.null)
    => /\ FiniteKeys(mapA) # {}
       /\ statsOut.last = MapGet(mapA, MaxKey(FiniteKeys(mapA)))

C7_Witness ==
  /\ spc = "stats"
  /\ mapA = <<Entry(3, NaN), Entry(2, Lit(13)), Entry(1, Lit(0))>>
  /\ ~statsOut.null
  /\ statsOut.last = Lit(13)

\* C8: statsFromMap returns null if and only if the series holds no finite
\* value; a series whose finite values are all 0 yields stats, not null.
C8_NullIffNoFiniteValue ==
  spc = "stats" => (statsOut.null <=> FiniteKeys(mapA) = {})

C8_Witness ==
  /\ spc = "stats"
  /\ mapA = <<Entry(2, Lit(0)), Entry(1, Lit(0)), Entry(3, PosInf)>>
  /\ ~statsOut.null
  /\ statsOut.samples = 2
  /\ statsOut.max = Lit(0)

\* C9: whenever statsFromMap returns stats, samples is the number of finite
\* values (>= 1), avg is their sum divided by samples, min <= avg <= max, and
\* min and max are values that occur in the series.
C9_AvgWithinMinMax ==
  (spc = "stats" /\ ~statsOut.null) =>
    /\ statsOut.samples = Cardinality(FiniteKeys(mapA))
    /\ statsOut.samples >= 1
    /\ statsOut.avg = FDiv(SumOf(FiniteValues(mapA)), Lit(statsOut.samples))
    /\ \E t \in FiniteKeys(mapA) : MapGet(mapA, t) = statsOut.min
    /\ \E t \in FiniteKeys(mapA) : MapGet(mapA, t) = statsOut.max
    /\ FLe(statsOut.min, statsOut.avg)
    /\ FLe(statsOut.avg, statsOut.max)

(***************************************************************************)
(* One run of main(), in either script.  main() is synchronous up to the   *)
(* await on Promise.all, which it reaches with every catalog request in    *)
(* flight; each response is then one step, and whatever main() does once   *)
(* the gather promise settles happens in the step of the response that     *)
(* settles it.                                                             *)
(***************************************************************************)
AuditClusterQueries ==
  << "cluster_cpu_usage_nano", "cluster_cpu_allocatable_cores",
     "cluster_cpu_requests_cores", "cluster_mem_usage_bytes",
     "cluster_mem_allocatable_bytes", "cluster_mem_requests_bytes",
     "cluster_node_count" >>

AuditDeploymentQueries ==
  << "deployment_cpu_usage_nano", "deployment_cpu_requests_cores",
     "deployment_mem_usage_bytes", "deployment_mem_requests_bytes",
     "hpa_current_replicas", "hpa_desired_replicas",
     "hpa_max_replicas", "hpa_min_replicas" >>

IncidentQueries ==
  << "cluster_cpu_usage_nano", "cluster_cpu_allocatable_cores",
     "cluster_cpu_requests_cores", "deployment_cpu_usage_nano",
     "deployment_cpu_requests_cores", "deployment_memory_usage_bytes",
     "deployment_memory_requests_bytes", "hpa_current_replicas",
     "hpa_desired_replicas", "hpa_max_replicas", "pending_pods",
     "deployment_replicas_unavailable", "deployment_replicas_desired" >>

\* A catalog in which the deployment block replaces the cluster block.
Catalog_deploymentReplaces(m, a) ==
  IF m = "incident" THEN IncidentQueries
  ELSE IF Truthy(a.deployment) THEN AuditDeploymentQueries
  ELSE AuditClusterQueries

\* const queries = {...}: the audit adds the deployment block only when
\* --deployment is truthy; the incident script always asks all thirteen.
Catalog(m, a) ==
  IF m = "incident" THEN IncidentQueries
  ELSE IF Truthy(a.deployment)
       THEN AuditClusterQueries \o AuditDeploymentQueries
       ELSE AuditClusterQueries

Names(qs) == { qs[i] : i \in 1..Len(qs) }

\* Object.entries(queries).map(async ([name, query]) => datadogQuery(...)):
\* each callback runs to its `await fetch(url, ...)` as map calls it, so
\* fetch is called once per entry, in the order of the entries.
Requests(qs) == [i \in 1..Len(qs) |-> qs[i]]

DefaultWindow(m) ==
  IF m = "incident" THEN IncidentDefaultWindow ELSE AuditDefaultWindow

\* The lines of the audit report; what a metric line shows is left open,
\* the line itself is always printed.
AuditMetricLines(a) ==
  << "title", "scope", "",
     "cluster_cpu_used_pct", "cluster_cpu_requested_pct",
     "cluster_cpu_waste_pct", "",
     "cluster_mem_used_pct", "cluster_mem_requested_pct",
     "cluster_mem_waste_pct", "",
     "cluster_node_count" >>
  \o (IF Truthy(a.deployment)
      THEN << "", "deployment_cpu_used_vs_requests_pct",
              "deployment_mem_used_vs_requests_pct",
              "hpa_current_replicas", "hpa_desired_replicas",
              "hpa_min_replicas", "hpa_max_replicas" >>
      ELSE << >>)

\* printRecommendations: `advice` of the five pieces of advice apply.
printRecommendations(advice) ==
  << "", "savings_opportunities:" >>
  \o (IF advice = 0 THEN << "no_savings" >> ELSE [i \in 1..advice |-> "advice"])
  \o << "", "note" >>

IncidentMetricLines ==
  << "title", "scope", "",
     "cluster_cpu_used_pct", "cluster_cpu_requested_pct",
     "deployment_cpu_used_vs_requests_pct",
     "deployment_memory_used_vs_requests_pct",
     "deployment_unavailable_pct", "pending_pods",
     "hpa_current_replicas", "hpa_desired_replicas", "hpa_max_replicas" >>

\* if (summary.capacityPlanning) {...}
CapacityLines(capacity) ==
  IF capacity
  THEN << "", "capacity_peak", "capacity_target_80pct", "capacity_target_70pct" >>
  ELSE << >>

printTuningRecommendations ==
  << "", "recommended_step_order:", "step1", "step2", "step3", "step4",
     "step5", "", "memory_limit_note" >>

MaxAdvice == 5

\* What the data decides about the report: how many pieces of advice the
\* audit prints and whether the incident report has a capacity plan.
Reports(m, a) ==
  IF m = "incident"
  THEN { IncidentMetricLines \o CapacityLines(c) \o printTuningRecommendations :
           c \in BOOLEAN }
  ELSE { AuditMetricLines(a) \o printRecommendations(k) : k \in 0..MaxAdvice }

\* Promise.all over the per-query promises.
PromiseAll_allSettled(r) ==
  IF \E n \in DOMAIN r : r[n] = "inflight" THEN "pending" ELSE "fulfilled"

\* Promise.race / Promise.any in place of Promise.all: the first fulfilment
\* resumes main().
PromiseAll_firstFulfilled(r) ==
  IF \E n \in DOMAIN r : r[n] = "rejected" THEN "rejected"
  ELSE IF \E n \in DOMAIN r : r[n] = "fulfilled" THEN "fulfilled"
  ELSE "pending"

PromiseAll(r) ==
  IF \E n \in DOMAIN r : r[n] = "rejected" THEN "rejected"
  ELSE IF \A n \in DOMAIN r : r[n] = "fulfilled" THEN "fulfilled"
  ELSE "pending"

ErrorLine(msg, name) == [msg |-> msg, name |-> name]

\* A catch handler that reports the error and lets the process run on.
Catch_keepsRunning(line) ==
  /\ stderr' = Append(stderr, line)
  /\ UNCHANGED <<pc, exitCode, stdout, exported>>

\* main().catch: console.error(error.message); process.exit(1)
Catch(line) ==
  /\ stderr' = Append(stderr, line)
  /\ exitCode' = 1
  /\ pc' = "exited"
  /\ UNCHANGED <<stdout, exported>>

\* main() from `const raw = Object.fromEntries(entries)` to the await on
\* fs.writeFile, or to its end without --out.
\* start.toISOString() throws a RangeError on an invalid Date, before the
\* first line is printed.
Report ==
  IF wrange.start.nan \/ wrange.end.nan
  THEN Catch(ErrorLine("Invalid time value", ""))
  ELSE /\ \E lines \in Reports(mode, args) : stdout' = stdout \o lines
       /\ IF Truthy(args.out)
          THEN pc' = "writing" /\ exitCode' = exitCode
          ELSE pc' = "done" /\ exitCode' = 0
       /\ UNCHANGED <<stderr, exported>>

\* What follows when request n settles with `line` as its error, if any.
Gathered(line) ==
  LET all == PromiseAll(req')
  IN  IF all = "rejected" THEN Catch(line)
      ELSE IF all = "fulfilled" THEN Report
      ELSE UNCHANGED <<pc, stdout, stderr, exitCode, exported>>

(***************************************************************************)
(* Inputs of Spec: the environment and the command line of one run.        *)
(***************************************************************************)
HelpVals == { Undefined, FlagTrue }
ClusterVals == { Undefined, FlagTrue, Str(<<>>), Str(<<"p", "r", "o", "d">>) }
DeploymentVals == { Undefined, Str(<<"a", "p", "i">>) }
OutVals == { Undefined, Str(<<"o", "u", "t">>) }
RunWindowVals ==
  { Undefined, FlagTrue, Str(<<"5", "x">>), Str(<<"0", "h">>),
    Str(<<"2", "0", "0", "0", "0", "0", "0", "0", "0", "d">>) }
RunDateVals == { Undefined, DateStr("not-a-date", InvalidDate) }

RInit ==
  /\ pc = "start"
  /\ mode \in {"audit", "incident"}
  /\ env \in [apiKey : BOOLEAN, appKey : BOOLEAN]
  /\ args \in [help : HelpVals, cluster : ClusterVals,
               deployment : DeploymentVals, out : OutVals]
  /\ queries = <<>>
  /\ req = <<>>
  /\ stdout = <<>>
  /\ stderr = <<>>
  /\ exitCode = -1
  /\ exported = FALSE
  /\ sent = <<>>
  /\ wpc = "input"
  /\ wargs \in [from : RunDateVals, to : RunDateVals, window : RunWindowVals]
  \* --deployment only changes the catalog of the audit, and is tried there
  \* with the default window.
  /\ Truthy(args.deployment) => mode = "audit" /\ ~Truthy(wargs.window)
  /\ wnow \in NowVals
  /\ wdefault = DefaultWindow(mode)
  /\ wrange = NoRange
  /\ SeriesIdle
  /\ ExtraIdle

\* main, from its first line to the await on Promise.all.
Main ==
  /\ pc = "start"
  /\ IF Truthy(args.help)
     THEN /\ stdout' = Append(stdout, "HELP")
          /\ pc' = "done"
          /\ exitCode' = 0
          /\ UNCHANGED <<queries, req, sent, stderr, wpc, wrange>>
     ELSE IF ~env.apiKey \/ ~env.appKey
     THEN /\ stderr' = Append(stderr,
               ErrorLine("Missing DD_API_KEY or DD_APP_KEY environment variables.", ""))
          /\ pc' = "exited"
          /\ exitCode' = 1
          /\ UNCHANGED <<queries, req, sent, stdout, wpc, wrange>>
     ELSE IF ~Truthy(args.cluster) \/ args.cluster.kind # "string"
     THEN /\ stderr' = Append(stderr,
               ErrorLine("Missing required --cluster argument.", ""))
          /\ pc' = "exited"
          /\ exitCode' = 1
          /\ UNCHANGED <<queries, req, sent, stdout, wpc, wrange>>
     ELSE LET r == parseTimeRange(wargs, wdefault, wnow)
          IN  /\ wrange' = r
              /\ wpc' = "resolved"
              /\ IF r.threw
                 THEN /\ stderr' = Append(stderr, ErrorLine(r.error, ""))
                      /\ pc' = "exited"
                      /\ exitCode' = 1
                      /\ UNCHANGED <<queries, req, sent, stdout>>
                 ELSE /\ queries' = Catalog(mode, args)
                      /\ req' = [n \in Names(Catalog(mode, args)) |-> "inflight"]
                      /\ sent' = Requests(Catalog(mode, args))
                      /\ pc' = "gather"
                      /\ UNCHANGED <<stdout, stderr, exitCode>>
  /\ UNCHANGED <<mode, env, args, exported, wargs, wnow, wdefault>>
  /\ UNCHANGED <<svars, xvars>>

\* datadogQuery for catalog name n: the response is a success and its body
\* parses, so the per-query promise fulfils with the aggregated series.
ResponseOk(n) ==
  /\ pc = "gather"
  /\ req[n] = "inflight"
  /\ req' = [req EXCEPT ![n] = "fulfilled"]
  /\ sent' = sent
  /\ Gathered(ErrorLine("", ""))
  /\ UNCHANGED <<mode, env, args, queries>>
  /\ UNCHANGED <<wvars, svars, xvars>>

\* datadogQuery that calls fetch again when the response is not a success.
ResponseNotOk_retries(n) ==
  /\ pc = "gather"
  /\ req[n] = "inflight"
  /\ sent' = Append(sent, n)
  /\ UNCHANGED <<req, pc, stdout, stderr, exitCode, exported>>
  /\ UNCHANGED <<mode, env, args, queries>>
  /\ UNCHANGED <<wvars, svars, xvars>>

\* datadogQuery for catalog name n: !res.ok, the body is read and the
\* error is thrown.  Nothing the run keeps changes between the status and
\* the throw, so the two awaits are one step.
ResponseNotOk(n) ==
  /\ pc = "gather"
  /\ req[n] = "inflight"
  /\ req' = [req EXCEPT ![n] = "rejected"]
  /\ sent' = sent
  /\ Gathered(ErrorLine("Datadog query failed", n))
  /\ UNCHANGED <<mode, env, args, queries>>
  /\ UNCHANGED <<wvars, svars, xvars>>

\* await fs.writeFile(...) succeeds; the closing line is printed.
WriteOk ==
  /\ pc = "writing"
  /\ exported' = TRUE
  /\ stdout' = stdout \o << "", "saved" >>
  /\ pc' = "done"
  /\ exitCode' = 0
  /\ UNCHANGED <<mode, env, args, queries, req, sent, stderr>>
  /\ UNCHANGED <<wvars, svars, xvars>>

\* await fs.writeFile(...) rejects; main().catch reports it.
WriteFail ==
  /\ pc = "writing"
  /\ stderr' = Append(stderr, ErrorLine("writeFile failed", ""))
  /\ pc' = "exited"
  /\ exitCode' = 1
  /\ UNCHANGED <<mode, env, args, queries, req, sent, stdout, exported>>
  /\ UNCHANGED <<wvars, svars, xvars>>

Succeed == \E n \in DOMAIN req : ResponseOk(n)

Refuse == \E n \in DOMAIN req : ResponseNotOk(n)

Next == Main \/ Succeed \/ Refuse \/ WriteOk \/ WriteFail

Spec == RInit /\ [][Next]_vars

(***************************************************************************)
(* Claims about a run.                                                     *)
(***************************************************************************)
Refused == { n \in DOMAIN req : req[n] = "rejected" }
Answered == { n \in DOMAIN req : req[n] = "fulfilled" }

\* C10: if any catalog query's response has a non-success status, the run
\* fails with no partial result: it has exited with code 1 on that query's
\* error, nothing was printed on stdout (no metric line, capacity plan or
\* recommendation) and no export file was written, however many sibling
\* queries succeeded and in whatever order the responses arrived.
C10_RefusedQueryFailsRun ==
  Refused # {} =>
    /\ pc = "exited"
    /\ exitCode = 1
    /\ stdout = <<>>
    /\ ~exported
    /\ Len(stderr) = 1
    /\ stderr[1].msg = "Datadog query failed"
    /\ stderr[1].name \in Refused

\* The last response to arrive is the refused one: every sibling of the
\* fifteen-query audit catalog had succeeded and an export was asked for.
C10_Witness ==
  /\ mode = "audit"
  /\ Len(queries) = 15
  /\ Truthy(args.out)
  /\ Cardinality(Refused) = 1
  /\ Cardinality(Answered) = 14
  /\ pc = "exited"

MissingCredential == ~env.apiKey \/ ~env.appKey

\* The cluster identifier is missing, or --cluster came without a value.
MissingCluster == ~Truthy(args.cluster) \/ args.cluster.kind # "string"

\* The time bounds of the command line give no window with start < end.
WindowInvalid ==
  LET r == parseTimeRange(wargs, wdefault, wnow)
  IN  r.threw \/ ~TimeLt(r.start, r.end)

\* C11: in a run where a credential is missing, the cluster identifier is
\* missing or given without a value, or the time window is invalid, no
\* telemetry request is ever issued, and the run (unless it only prints
\* the help text) has failed with exit code 1 once main() has acted.
C11_FatalInputNeverDispatches ==
  (MissingCredential \/ MissingCluster \/ WindowInvalid) =>
    /\ req = <<>>
    /\ (pc # "start" /\ ~Truthy(args.help)) => (pc = "exited" /\ exitCode = 1)

(***************************************************************************)
(* aggregateSeriesByTimestamp (the same text in both scripts).  A point is *)
(* [ts, value]; value is null or a number of the parsed JSON body, which   *)
(* is finite or, for a literal beyond the double range, an infinity.       *)
(***************************************************************************)
Null == [cls |-> "null", k |-> 0]
Point(ts, value) == [ts |-> ts, value |-> value]

\* Number(value) of a value that is already a number.
Number(value) == value

\* points.get(ts) || 0: undefined, 0 and NaN are falsy.
GetOrZero(map, ts) ==
  IF MapHas(map, ts) /\ ~IsZero(MapGet(map, ts)) /\ MapGet(map, ts) # NaN
  THEN MapGet(map, ts)
  ELSE Lit(0)

\* The body of the inner loop for one point.
aggregatePoint(map, point) ==
  IF point.value = Null THEN map
  ELSE MapSet(map, point.ts, FAdd(GetOrZero(map, point.ts), Number(point.value)))

RECURSIVE aggregatePointlist(_, _)
aggregatePointlist(map, pointlist) ==
  IF pointlist = <<>> THEN map
  ELSE aggregatePointlist(aggregatePoint(map, Head(pointlist)), Tail(pointlist))

RECURSIVE aggregateLoop(_, _)
aggregateLoop(map, items) ==
  IF items = <<>> THEN map
  ELSE aggregateLoop(aggregatePointlist(map, Head(items)), Tail(items))

aggregateSeriesByTimestamp(items) == aggregateLoop(EmptyMap, items)

(***************************************************************************)
(* Inputs of SpecAggregate: at most MaxSeries tagged series holding at     *)
(* most MaxPoints points between them.                                     *)
(***************************************************************************)
MaxSeries == 2
MaxPoints == 3
PointTimestamps == {1, 2}
PointVals == { Null, Lit(1), PosInf, NegInf }
Points == [ts : PointTimestamps, value : PointVals]

\* flat cut into Len(cuts) + 1 consecutive pointlists at the given places.
Split(flat, cuts) ==
  [i \in 1..(Len(cuts) + 1) |->
     SubSeq(flat,
            (IF i = 1 THEN 0 ELSE cuts[i - 1]) + 1,
            IF i = Len(cuts) + 1 THEN Len(flat) ELSE cuts[i])]

Payloads ==
  {<<>>} \cup
  UNION { UNION { { Split(flat, cuts) :
                      cuts \in { c \in [1..(k - 1) -> 0..Len(flat)] :
                                   \A i, j \in 1..(k - 1) : i < j => c[i] <= c[j] } } :
                    flat \in UNION { [1..n -> Points] : n \in 0..MaxPoints } } :
          k \in 1..MaxSeries }

GInit ==
  /\ gpc = "input"
  /\ series \in Payloads
  /\ points = EmptyMap
  /\ WindowIdle
  /\ SeriesIdle
  /\ RunIdle
  /\ ReportIdle
  /\ PeakIdle
  /\ PureIdle
  /\ GatherIdle

\* datadogQuery: return aggregateSeriesByTimestamp(payload?.series || [])
Aggregate ==
  /\ gpc = "input"
  /\ points' = aggregateSeriesByTimestamp(series)
  /\ gpc' = "aggregated"
  /\ UNCHANGED series
  /\ UNCHANGED <<wvars, svars, rvars, pvars, kvars, hvars, evars>>

SpecAggregate == GInit /\ [][Aggregate]_vars

(***************************************************************************)
(* Claims about aggregateSeriesByTimestamp.                                *)
(***************************************************************************)
RECURSIVE Flatten(_)
Flatten(items) == IF items = <<>> THEN <<>> ELSE Head(items) \o Flatten(Tail(items))

\* The non-null values reported at timestamp t, in the order reported.
ReportedAt(t) ==
  LET at == SelectSeq(Flatten(series), LAMBDA pt : pt.ts = t /\ pt.value # Null)
  IN  [i \in 1..Len(at) |-> at[i].value]

\* C12: the Map built from the tagged series has exactly the timestamps at
\* which some series reports a non-null value, and maps each to the sum of
\* the non-null values reported at that timestamp (no zero padding).
C12_SumOfNonNullValues ==
  gpc = "aggregated" =>
    /\ IsMap(points)
    /\ MapKeys(points) = { t \in PointTimestamps : Len(ReportedAt(t)) > 0 }
    /\ \A t \in MapKeys(points) : MapGet(points, t) = SumOf(ReportedAt(t))

(***************************************************************************)
(* The report: main() from `const raw = Object.fromEntries(entries)` on.   *)
(* raw maps each catalog name to the Map its query returned.               *)
(***************************************************************************)
NANO_PER_CORE == 1000000000

\* v / 1e9
DivNano(v) ==
  IF v.cls = "fin" THEN Round(Sgn(v.k), Abs(v.k), NANO_PER_CORE) ELSE v

\* new Map(mapToSortedEntries(map).map(([ts, v]) => [ts, v / 1e9]))
UsageCores(map) ==
  LET sorted == mapToSortedEntries(map)
  IN  [i \in 1..Len(sorted) |-> Entry(sorted[i].ts, DivNano(sorted[i].val))]

Percent == Lit(100)

\* An audit whose waste series are the requested percentages, whether or
\* not the usage was sampled at the timestamp.
AuditDerived_wasteWithoutUsage(r, a) ==
  LET cpuUsed == ratioSeries(UsageCores(r["cluster_cpu_usage_nano"]),
                             r["cluster_cpu_allocatable_cores"], Percent)
      cpuRequested == ratioSeries(r["cluster_cpu_requests_cores"],
                                  r["cluster_cpu_allocatable_cores"], Percent)
      memUsed == ratioSeries(r["cluster_mem_usage_bytes"],
                             r["cluster_mem_allocatable_bytes"], Percent)
      memRequested == ratioSeries(r["cluster_mem_requests_bytes"],
                                  r["cluster_mem_allocatable_bytes"], Percent)
  IN  [ cluster_cpu_used_pct |-> cpuUsed,
        cluster_cpu_requested_pct |-> cpuRequested,
        cluster_cpu_waste_pct |->
          [i \in 1..Len(cpuRequested) |->
             Entry(cpuRequested[i].ts,
                   IF MapHas(cpuUsed, cpuRequested[i].ts)
                   THEN FSub(cpuRequested[i].val, MapGet(cpuUsed, cpuRequested[i].ts))
                   ELSE cpuRequested[i].val)],
        cluster_mem_used_pct |-> memUsed,
        cluster_mem_requested_pct |-> memRequested,
        cluster_mem_waste_pct |->
          [i \in 1..Len(memRequested) |->
             Entry(memRequested[i].ts,
                   IF MapHas(memUsed, memRequested[i].ts)
                   THEN FSub(memRequested[i].val, MapGet(memUsed, memRequested[i].ts))
                   ELSE memRequested[i].val)] ]

\* const derived = {...} of the audit.
AuditDerived(r, a) ==
  LET cpuUsed == ratioSeries(UsageCores(r["cluster_cpu_usage_nano"]),
                             r["cluster_cpu_allocatable_cores"], Percent)
      cpuRequested == ratioSeries(r["cluster_cpu_requests_cores"],
                                  r["cluster_cpu_allocatable_cores"], Percent)
      memUsed == ratioSeries(r["cluster_mem_usage_bytes"],
                             r["cluster_mem_allocatable_bytes"], Percent)
      memRequested == ratioSeries(r["cluster_mem_requests_bytes"],
                                  r["cluster_mem_allocatable_bytes"], Percent)
      cluster ==
        [ cluster_cpu_used_pct |-> cpuUsed,
          cluster_cpu_requested_pct |-> cpuRequested,
          cluster_cpu_waste_pct |-> diffSeries(cpuRequested, cpuUsed),
          cluster_mem_used_pct |-> memUsed,
          cluster_mem_requested_pct |-> memRequested,
          cluster_mem_waste_pct |-> diffSeries(memRequested, memUsed) ]
  IN  IF Truthy(a.deployment)
      THEN cluster @@
        [ deployment_cpu_used_vs_requests_pct |->
            ratioSeries(UsageCores(r["deployment_cpu_usage_nano"]),
                        r["deployment_cpu_requests_cores"], Percent),
          deployment_mem_used_vs_requests_pct |->
            ratioSeries(r["deployment_mem_usage_bytes"],
                        r["deployment_mem_requests_bytes"], Percent) ]
      ELSE cluster

\* summary.metrics of the audit, from derived (d) and raw (r).
AuditMetrics(d, r, a) ==
  LET cluster ==
        [ cluster_cpu_used_pct |-> statsFromMap(d.cluster_cpu_used_pct),
          cluster_cpu_requested_pct |-> statsFromMap(d.cluster_cpu_requested_pct),
          cluster_cpu_waste_pct |-> statsFromMap(d.cluster_cpu_waste_pct),
          cluster_mem_used_pct |-> statsFromMap(d.cluster_mem_used_pct),
          cluster_mem_requested_pct |-> statsFromMap(d.cluster_mem_requested_pct),
          cluster_mem_waste_pct |-> statsFromMap(d.cluster_mem_waste_pct),
          cluster_node_count |-> statsFromMap(r["cluster_node_count"]) ]
  IN  IF Truthy(a.deployment)
      THEN cluster @@
        [ deployment_cpu_used_vs_requests_pct |->
            statsFromMap(d.deployment_cpu_used_vs_requests_pct),
          deployment_mem_used_vs_requests_pct |->
            statsFromMap(d.deployment_mem_used_vs_requests_pct),
          hpa_current_replicas |-> statsFromMap(r["hpa_current_replicas"]),
          hpa_desired_replicas |-> statsFromMap(r["hpa_desired_replicas"]),
          hpa_max_replicas |-> statsFromMap(r["hpa_max_replicas"]),
          hpa_min_replicas |-> statsFromMap(r["hpa_min_replicas"]) ]
      ELSE cluster

\* const derived = {...} of the incident script.
IncidentDerived(r) ==
  [ cluster_cpu_used_pct |->
      ratioSeries(UsageCores(r["cluster_cpu_usage_nano"]),
                  r["cluster_cpu_allocatable_cores"], Percent),
    cluster_cpu_requested_pct |->
      ratioSeries(r["cluster_cpu_requests_cores"],
                  r["cluster_cpu_allocatable_cores"], Percent),
    deployment_cpu_used_vs_requests_pct |->
      ratioSeries(UsageCores(r["deployment_cpu_usage_nano"]),
                  r["deployment_cpu_requests_cores"], Percent),
    deployment_memory_used_vs_requests_pct |->
      ratioSeries(r["deployment_memory_usage_bytes"],
                  r["deployment_memory_requests_bytes"], Percent),
    deployment_unavailable_pct |->
      ratioSeries(r["deployment_replicas_unavailable"],
                  r["deployment_replicas_desired"], Percent) ]

\* summary.metrics of the incident script, from derived (d) and raw (r).
IncidentMetrics(d, r) ==
      [ cluster_cpu_used_pct |-> statsFromMap(d.cluster_cpu_used_pct),
        cluster_cpu_requested_pct |-> statsFromMap(d.cluster_cpu_requested_pct),
        deployment_cpu_used_vs_requests_pct |->
          statsFromMap(d.deployment_cpu_used_vs_requests_pct),
        deployment_memory_used_vs_requests_pct |->
          statsFromMap(d.deployment_memory_used_vs_requests_pct),
        deployment_unavailable_pct |-> statsFromMap(d.deployment_unavailable_pct),
        pending_pods |-> statsFromMap(r["pending_pods"]),
        hpa_current_replicas |-> statsFromMap(r["hpa_current_replicas"]),
        hpa_desired_replicas |-> statsFromMap(r["hpa_desired_replicas"]),
        hpa_max_replicas |-> statsFromMap(r["hpa_max_replicas"]) ]

(***************************************************************************)
(* peakRatioDetails and the capacity plan (incident script).               *)
(***************************************************************************)
NoPeak ==
  [null |-> TRUE, ts |-> 0, ratio |-> NaN, numerator |-> NaN, denominator |-> NaN]

Peak(ts, ratio, numerator, denominator) ==
  [null |-> FALSE, ts |-> ts, ratio |-> ratio,
   numerator |-> numerator, denominator |-> denominator]

\* The loop of peakRatioDetails over numeratorMap.entries(), from entry i on.
RECURSIVE peakLoop(_, _, _, _, _)
peakLoop(i, numeratorMap, denominatorMap, multiplier, best) ==
  IF i > Len(numeratorMap) THEN best
  ELSE LET ts == numeratorMap[i].ts
           numerator == numeratorMap[i].val
       IN  IF \/ ~IsFinite(numerator)
              \/ ~MapHas(denominatorMap, ts)
              \/ ~IsFinite(MapGet(denominatorMap, ts))
              \/ IsZero(MapGet(denominatorMap, ts))
           THEN peakLoop(i + 1, numeratorMap, denominatorMap, multiplier, best)
           ELSE LET denominator == MapGet(denominatorMap, ts)
                    ratio == FMul(FDiv(numerator, denominator), multiplier)
                IN  IF best.null \/ FLt(best.ratio, ratio)
                    THEN peakLoop(i + 1, numeratorMap, denominatorMap, multiplier,
                                  Peak(ts, ratio, numerator, denominator))
                    ELSE peakLoop(i + 1, numeratorMap, denominatorMap, multiplier, best)

\* peakRatioDetails that keeps the first eligible entry, whatever its ratio.
peakRatioDetails_firstEligible(numeratorMap, denominatorMap, multiplier) ==
  LET eligible == { i \in 1..Len(numeratorMap) :
                      /\ IsFinite(numeratorMap[i].val)
                      /\ MapHas(denominatorMap, numeratorMap[i].ts)
                      /\ IsFinite(MapGet(denominatorMap, numeratorMap[i].ts))
                      /\ ~IsZero(MapGet(denominatorMap, numeratorMap[i].ts)) }
  IN  IF eligible = {} THEN NoPeak
      ELSE LET i == CHOOSE j \in eligible : \A l \in eligible : j <= l
               denominator == MapGet(denominatorMap, numeratorMap[i].ts)
           IN  Peak(numeratorMap[i].ts,
                    FMul(FDiv(numeratorMap[i].val, denominator), multiplier),
                    numeratorMap[i].val, denominator)

\* The loop of a peakRatioDetails that tests `ratio >= best.ratio`.
RECURSIVE peakLoop_orEqual(_, _, _, _, _)
peakLoop_orEqual(i, numeratorMap, denominatorMap, multiplier, best) ==
  IF i > Len(numeratorMap) THEN best
  ELSE LET ts == numeratorMap[i].ts
           numerator == numeratorMap[i].val
       IN  IF \/ ~IsFinite(numerator)
              \/ ~MapHas(denominatorMap, ts)
              \/ ~IsFinite(MapGet(denominatorMap, ts))
              \/ IsZero(MapGet(denominatorMap, ts))
           THEN peakLoop_orEqual(i + 1, numeratorMap, denominatorMap, multiplier, best)
           ELSE LET denominator == MapGet(denominatorMap, ts)
                    ratio == FMul(FDiv(numerator, denominator), multiplier)
                IN  IF best.null \/ FLe(best.ratio, ratio)
                    THEN peakLoop_orEqual(i + 1, numeratorMap, denominatorMap, multiplier,
                                          Peak(ts, ratio, numerator, denominator))
                    ELSE peakLoop_orEqual(i + 1, numeratorMap, denominatorMap,
                                          multiplier, best)

\* peakRatioDetails that lets a later equal ratio replace the best.
peakRatioDetails_lastOfTies(numeratorMap, denominatorMap, multiplier) ==
  peakLoop_orEqual(1, numeratorMap, denominatorMap, multiplier, NoPeak)

peakRatioDetails(numeratorMap, denominatorMap, multiplier) ==
  peakLoop(1, numeratorMap, denominatorMap, multiplier, NoPeak)

NoPlan ==
  [ null |-> TRUE, peakTimestamp |-> 0, peakRequestedPct |-> NaN,
    peakRequestedCores |-> NaN, allocatableAtPeakCores |-> NaN,
    requiredAllocatableFor80Pct |-> NaN, requiredAllocatableFor70Pct |-> NaN,
    scaleFactorFor80Pct |-> NaN, scaleFactorFor70Pct |-> NaN ]

\* summary.capacityPlanning
capacityPlanning(r) ==
  LET peak == peakRatioDetails(r["cluster_cpu_requests_cores"],
                               r["cluster_cpu_allocatable_cores"], Percent)
      for80 == FDiv(peak.numerator, LitQ(8, 10))
      for70 == FDiv(peak.numerator, LitQ(7, 10))
  IN  IF peak.null THEN NoPlan
      ELSE [ null |-> FALSE,
             peakTimestamp |-> peak.ts,
             peakRequestedPct |-> peak.ratio,
             peakRequestedCores |-> peak.numerator,
             allocatableAtPeakCores |-> peak.denominator,
             requiredAllocatableFor80Pct |-> for80,
             requiredAllocatableFor70Pct |-> for70,
             scaleFactorFor80Pct |-> FDiv(for80, peak.denominator),
             scaleFactorFor70Pct |-> FDiv(for70, peak.denominator) ]

(***************************************************************************)
(* formatNumber and printLine.                                             *)
(***************************************************************************)
\* value.toFixed(decimals) for decimals 0 or 2: the nearest multiple of
\* 10^-decimals, the larger one on a tie; held as that multiple's count.
ToFixed(value, decimals) ==
  LET scale == IF decimals = 0 THEN 1 ELSE 100
      n == (2 * Abs(value.k) * scale + Unit) \div (2 * Unit)
  IN  [text |-> "fixed", decimals |-> decimals, n |-> Sgn(value.k) * n]

NotAvailable == [text |-> "n/a", decimals |-> 0, n |-> 0]

formatNumber(value, decimals) ==
  IF ~IsFinite(value) THEN NotAvailable ELSE ToFixed(value, decimals)

\* printLine that shows missing stats as zeros.
printLine_zeroForNull(name, stats, unit) ==
  [ name |-> name, na |-> FALSE,
    avg |-> formatNumber(IF stats.null THEN Lit(0) ELSE stats.avg, 2),
    max |-> formatNumber(IF stats.null THEN Lit(0) ELSE stats.max, 2),
    last |-> formatNumber(IF stats.null THEN Lit(0) ELSE stats.last, 2),
    samples |-> stats.samples, unit |-> unit ]

\* What printLine(name, stats, unit) prints.
printLine(name, stats, unit) ==
  IF stats.null
  THEN [ name |-> name, na |-> TRUE, avg |-> NotAvailable, max |-> NotAvailable,
         last |-> NotAvailable, samples |-> 0, unit |-> unit ]
  ELSE [ name |-> name, na |-> FALSE,
         avg |-> formatNumber(stats.avg, 2),
         max |-> formatNumber(stats.max, 2),
         last |-> formatNumber(stats.last, 2),
         samples |-> stats.samples, unit |-> unit ]

(***************************************************************************)
(* The recommendations, decided on summary.metrics.  A metric the summary  *)
(* does not hold is undefined, which the rules treat as they treat null.   *)
(***************************************************************************)
Metric(metrics, name) ==
  IF name \in DOMAIN metrics THEN metrics[name] ELSE NullStats

\* x > y and x < y on Numbers (false on NaN).
FGt(a, b) == FLt(b, a)

When(cond, line) == IF cond THEN << line >> ELSE << >>

\* The two cluster CPU waste rules, with the upper boundary inclusive.
CpuWasteAdvice_from30(cpuWaste) ==
  IF ~cpuWaste.null /\ FLe(Lit(30), cpuWaste.avg)
  THEN << "reduce_cpu_requests" >>
  ELSE IF ~cpuWaste.null /\ FGt(cpuWaste.avg, Lit(15))
  THEN << "moderate_cpu_waste" >>
  ELSE << >>

\* if (cpuWaste?.avg > 30) {...} else if (cpuWaste?.avg > 15) {...}
CpuWasteAdvice(cpuWaste) ==
  IF ~cpuWaste.null /\ FGt(cpuWaste.avg, Lit(30))
  THEN << "reduce_cpu_requests" >>
  ELSE IF ~cpuWaste.null /\ FGt(cpuWaste.avg, Lit(15))
  THEN << "moderate_cpu_waste" >>
  ELSE << >>

\* The replica rule decided on the autoscaler's bounds instead.
ReplicasConstant_boundsEqual(metrics) ==
  LET lower == Metric(metrics, "hpa_min_replicas")
      upper == Metric(metrics, "hpa_max_replicas")
  IN  ~lower.null /\ ~upper.null /\ IsZero(FSub(upper.max, lower.min))

\* if (hpaCurrent) { const range = hpaCurrent.max - hpaCurrent.min;
\*                   if (range === 0) {...} }
ReplicasConstant(metrics) ==
  LET hpaCurrent == Metric(metrics, "hpa_current_replicas")
  IN  ~hpaCurrent.null /\ IsZero(FSub(hpaCurrent.max, hpaCurrent.min))

\* printRecommendations as one else-if chain: the first rule that holds
\* ends the evaluation.
Advice_elseIfChain(metrics) ==
  LET cpuWaste == Metric(metrics, "cluster_cpu_waste_pct")
      memWaste == Metric(metrics, "cluster_mem_waste_pct")
      deployCpu == Metric(metrics, "deployment_cpu_used_vs_requests_pct")
      deployMem == Metric(metrics, "deployment_mem_used_vs_requests_pct")
  IN  IF Len(CpuWasteAdvice(cpuWaste)) > 0 THEN CpuWasteAdvice(cpuWaste)
      ELSE IF ~memWaste.null /\ FGt(memWaste.avg, Lit(25))
      THEN << "reduce_mem_requests" >>
      ELSE IF ~deployCpu.null /\ FLt(deployCpu.avg, Lit(50))
      THEN << "reduce_deployment_cpu" >>
      ELSE IF ~deployMem.null /\ FLt(deployMem.avg, Lit(50))
      THEN << "reduce_deployment_mem" >>
      ELSE When(ReplicasConstant(metrics), "replicas_constant")

\* The numbered lines of printRecommendations, in the order printed.
Advice(metrics) ==
  LET cpuWaste == Metric(metrics, "cluster_cpu_waste_pct")
      memWaste == Metric(metrics, "cluster_mem_waste_pct")
      deployCpu == Metric(metrics, "deployment_cpu_used_vs_requests_pct")
      deployMem == Metric(metrics, "deployment_mem_used_vs_requests_pct")
  IN  CpuWasteAdvice(cpuWaste)
      \o When(~memWaste.null /\ FGt(memWaste.avg, Lit(25)), "reduce_mem_requests")
      \o When(~deployCpu.null /\ FLt(deployCpu.avg, Lit(50)), "reduce_deployment_cpu")
      \o When(~deployMem.null /\ FLt(deployMem.avg, Lit(50)), "reduce_deployment_mem")
      \o When(ReplicasConstant(metrics), "replicas_constant")

\* printRecommendations that closes every list with the no-savings line.
RecommendationLines_alwaysNoSavings(metrics) ==
  << "", "savings_opportunities:" >>
  \o Advice(metrics) \o << "no_savings" >>
  \o << "", "note" >>

\* Everything printRecommendations(summary) prints.
RecommendationLines(metrics) ==
  << "", "savings_opportunities:" >>
  \o (IF Len(Advice(metrics)) = 0 THEN << "no_savings" >> ELSE Advice(metrics))
  \o << "", "note" >>

\* printTuningRecommendations whose third step looks at the replica gap only.
TuningLines_gapOnly(metrics) ==
  LET mem == Metric(metrics, "deployment_memory_used_vs_requests_pct")
      cpu == Metric(metrics, "deployment_cpu_used_vs_requests_pct")
      desired == Metric(metrics, "hpa_desired_replicas")
      current == Metric(metrics, "hpa_current_replicas")
      hpaGap == IF ~desired.null /\ ~current.null
                THEN FSub(desired.max, current.max) ELSE Lit(0)
  IN  << "", "recommended_step_order:",
         IF ~mem.null /\ FGt(mem.max, Lit(100))
           THEN "1_lower_memory_target" ELSE "1_keep_memory_target",
         IF ~cpu.null /\ FGt(cpu.max, Lit(85))
           THEN "2_lower_cpu_target" ELSE "2_keep_cpu_target",
         IF FGt(hpaGap, Lit(0))
           THEN "3_tune_scale_up" ELSE "3_keep_scale_up",
         "4_replica_baseline", "5_max_replicas",
         "", "memory_limit_note" >>

\* Everything printTuningRecommendations(summary) prints.
TuningLines(metrics) ==
  LET mem == Metric(metrics, "deployment_memory_used_vs_requests_pct")
      cpu == Metric(metrics, "deployment_cpu_used_vs_requests_pct")
      unavailable == Metric(metrics, "deployment_unavailable_pct")
      desired == Metric(metrics, "hpa_desired_replicas")
      current == Metric(metrics, "hpa_current_replicas")
      hpaGap == IF ~desired.null /\ ~current.null
                THEN FSub(desired.max, current.max) ELSE Lit(0)
      unavailableMax == IF unavailable.null THEN Lit(0) ELSE unavailable.max
  IN  << "", "recommended_step_order:",
         IF ~mem.null /\ FGt(mem.max, Lit(100))
           THEN "1_lower_memory_target" ELSE "1_keep_memory_target",
         IF ~cpu.null /\ FGt(cpu.max, Lit(85))
           THEN "2_lower_cpu_target" ELSE "2_keep_cpu_target",
         IF FGt(unavailableMax, Lit(5)) \/ FGt(hpaGap, Lit(0))
           THEN "3_tune_scale_up" ELSE "3_keep_scale_up",
         "4_replica_baseline", "5_max_replicas",
         "", "memory_limit_note" >>

\* The metric lines, in the order printed ("" is the empty line).
AuditPrintOrder(a) ==
  << "cluster_cpu_used_pct", "cluster_cpu_requested_pct",
     "cluster_cpu_waste_pct", "",
     "cluster_mem_used_pct", "cluster_mem_requested_pct",
     "cluster_mem_waste_pct", "",
     "cluster_node_count" >>
  \o (IF Truthy(a.deployment)
      THEN << "", "deployment_cpu_used_vs_requests_pct",
              "deployment_mem_used_vs_requests_pct",
              "hpa_current_replicas", "hpa_desired_replicas",
              "hpa_min_replicas", "hpa_max_replicas" >>
      ELSE << >>)

IncidentPrintOrder ==
  << "cluster_cpu_used_pct", "cluster_cpu_requested_pct",
     "deployment_cpu_used_vs_requests_pct",
     "deployment_memory_used_vs_requests_pct",
     "deployment_unavailable_pct", "pending_pods",
     "hpa_current_replicas", "hpa_desired_replicas", "hpa_max_replicas" >>

PrintOrder(m, a) == IF m = "incident" THEN IncidentPrintOrder ELSE AuditPrintOrder(a)

\* printLine's third argument: '%' for the percentages, '' for the counts.
UnitOf(name) ==
  IF name \in { "cluster_node_count", "pending_pods", "hpa_current_replicas",
                "hpa_desired_replicas", "hpa_min_replicas", "hpa_max_replicas" }
  THEN "" ELSE "%"

\* The printLine calls of main, in order.
MetricLines(m, a, metrics) ==
  LET names == SelectSeq(PrintOrder(m, a), LAMBDA n : n # "")
  IN  [i \in 1..Len(names) |-> printLine(names[i], metrics[names[i]], UnitOf(names[i]))]

\* Everything main prints from the title to the recommendations.
ReportLines(m, a, metrics, plan) ==
  IF m = "incident"
  THEN << "title", "scope", "" >> \o IncidentPrintOrder
       \o CapacityLines(~plan.null) \o TuningLines(metrics)
  ELSE << "title", "scope", "" >> \o AuditPrintOrder(a)
       \o RecommendationLines(metrics)

(***************************************************************************)
(* Inputs of SpecReport: a run whose queries have all succeeded; each      *)
(* returned the sample series, except that all of them, or at most         *)
(* MaxEmpty of them, returned no series at all.                            *)
(***************************************************************************)
MaxEmpty == 2
SampleSeries == << Entry(2, Lit(4)), Entry(1, Lit(0)) >>

RawResults(names) ==
  { [n \in names |-> IF n \in empty THEN EmptyMap ELSE SampleSeries] :
      empty \in { e \in SUBSET names : Cardinality(e) <= MaxEmpty \/ e = names } }

PInit ==
  /\ pc = "gathered"
  /\ mode \in {"audit", "incident"}
  /\ env = [apiKey |-> TRUE, appKey |-> TRUE]
  /\ args \in [help : {Undefined}, cluster : {Str(<<"p", "r", "o", "d">>)},
               deployment : DeploymentVals, out : {Undefined}]
  /\ Truthy(args.deployment) => mode = "audit"
  /\ queries = Catalog(mode, args)
  /\ req = [n \in Names(Catalog(mode, args)) |-> "fulfilled"]
  /\ stdout = <<>>
  /\ stderr = <<>>
  /\ exitCode = -1
  /\ exported = FALSE
  /\ sent = Requests(Catalog(mode, args))
  /\ wpc = "resolved"
  /\ wargs = [from |-> Undefined, to |-> Undefined, window |-> Undefined]
  /\ wnow \in NowVals
  /\ wdefault = DefaultWindow(mode)
  /\ wrange = parseTimeRange(wargs, wdefault, wnow)
  /\ raw \in RawResults(Names(Catalog(mode, args)))
  /\ derived = <<>>
  /\ summaryMetrics = <<>>
  /\ capacityPlan = <<>>
  /\ printed = <<>>
  /\ SeriesIdle
  /\ AggregateIdle
  /\ PeakIdle
  /\ PureIdle
  /\ GatherIdle

\* main, from `const raw = Object.fromEntries(entries)` to its end.
PrintReport ==
  /\ pc = "gathered"
  /\ derived' = IF mode = "incident" THEN IncidentDerived(raw)
                ELSE AuditDerived(raw, args)
  /\ summaryMetrics' = IF mode = "incident" THEN IncidentMetrics(derived', raw)
                       ELSE AuditMetrics(derived', raw, args)
  /\ capacityPlan' = IF mode = "incident" THEN capacityPlanning(raw) ELSE NoPlan
  /\ printed' = MetricLines(mode, args, summaryMetrics')
  /\ stdout' = stdout \o ReportLines(mode, args, summaryMetrics', capacityPlan')
  /\ pc' = "done"
  /\ exitCode' = 0
  /\ UNCHANGED <<mode, env, args, queries, req, sent, stderr, exported, raw>>
  /\ UNCHANGED <<wvars, svars, gvars, kvars, hvars, evars>>

SpecReport == PInit /\ [][PrintReport]_vars

(***************************************************************************)
(* Claims about the report.                                                *)
(***************************************************************************)
\* The raw series a metric of the summary is computed from.
Sources(m, name) ==
  IF name \in { "cluster_cpu_used_pct" }
    THEN { "cluster_cpu_usage_nano", "cluster_cpu_allocatable_cores" }
  ELSE IF name = "cluster_cpu_requested_pct"
    THEN { "cluster_cpu_requests_cores", "cluster_cpu_allocatable_cores" }
  ELSE IF name = "cluster_cpu_waste_pct"
    THEN { "cluster_cpu_usage_nano", "cluster_cpu_requests_cores",
           "cluster_cpu_allocatable_cores" }
  ELSE IF name = "cluster_mem_used_pct"
    THEN { "cluster_mem_usage_bytes", "cluster_mem_allocatable_bytes" }
  ELSE IF name = "cluster_mem_requested_pct"
    THEN { "cluster_mem_requests_bytes", "cluster_mem_allocatable_bytes" }
  ELSE IF name = "cluster_mem_waste_pct"
    THEN { "cluster_mem_usage_bytes", "cluster_mem_requests_bytes",
           "cluster_mem_allocatable_bytes" }
  ELSE IF name = "deployment_cpu_used_vs_requests_pct"
    THEN { "deployment_cpu_usage_nano", "deployment_cpu_requests_cores" }
  ELSE IF name = "deployment_mem_used_vs_requests_pct"
    THEN { "deployment_mem_usage_bytes", "deployment_mem_requests_bytes" }
  ELSE IF name = "deployment_memory_used_vs_requests_pct"
    THEN { "deployment_memory_usage_bytes", "deployment_memory_requests_bytes" }
  ELSE IF name = "deployment_unavailable_pct"
    THEN { "deployment_replicas_unavailable", "deployment_replicas_desired" }
  ELSE { name }

PrintedLine(name) == printed[CHOOSE i \in 1..Len(printed) : printed[i].name = name]

\* C13: a successful query that returned zero series gives an empty Map;
\* every statistic computed from it, directly or through a ratio or a
\* difference it takes part in, is null and its line reads "n/a", never a
\* zero, and the run ends normally with exit code 0.
C13_EmptySeriesIsNotAnError ==
  pc = "done" =>
    /\ exitCode = 0
    /\ stderr = <<>>
    /\ \A name \in DOMAIN summaryMetrics :
         (\E q \in Sources(mode, name) : raw[q] = EmptyMap) =>
           /\ summaryMetrics[name].null
           /\ PrintedLine(name).na
           /\ PrintedLine(name).avg = NotAvailable

\* The node count query of an audit returned no series while the CPU
\* queries returned samples: one line reads "n/a", the others show numbers.
C13_Witness ==
  /\ pc = "done"
  /\ mode = "audit"
  /\ raw["cluster_node_count"] = EmptyMap
  /\ PrintedLine("cluster_node_count").na
  /\ ~PrintedLine("cluster_cpu_requested_pct").na
  /\ exitCode = 0

(***************************************************************************)
(* SpecPeak: one call of peakRatioDetails(mapA, mapB, mult).               *)
(***************************************************************************)
PeakDenominatorVals == { Lit(0), Lit(1), Lit(2), NaN }

KInit ==
  /\ spc = "input"
  /\ mapA \in OrderedMaps(NumeratorVals, MaxPairLen)
  /\ mapB \in SortedMaps(PeakDenominatorVals, MaxPairLen)
  /\ mult \in MultiplierVals
  /\ ratioOut = EmptyMap
  /\ diffOut = EmptyMap
  /\ statsOut = NullStats
  /\ peakOut = NoPeak
  /\ WindowIdle
  /\ RunIdle
  /\ AggregateIdle
  /\ ReportIdle
  /\ PureIdle
  /\ GatherIdle

\* peakRatioDetails(mapA, mapB, mult)
ApplyPeak ==
  /\ spc = "input"
  /\ peakOut' = peakRatioDetails(mapA, mapB, mult)
  /\ spc' = "peak"
  /\ UNCHANGED <<mapA, mapB, mult, ratioOut, diffOut, statsOut>>
  /\ UNCHANGED <<wvars, rvars, gvars, pvars, hvars, evars>>

SpecPeak == KInit /\ [][ApplyPeak]_vars

(***************************************************************************)
(* Claims about peakRatioDetails.                                          *)
(***************************************************************************)
\* Timestamps of the numerator that the denominator holds with a finite,
\* non-zero value.
DenominatorEligible ==
  { t \in MapKeys(mapA) :
      /\ MapHas(mapB, t)
      /\ IsFinite(MapGet(mapB, t))
      /\ ~IsZero(MapGet(mapB, t)) }

\* Those of them whose numerator value is finite as well.
Eligible == { t \in DenominatorEligible : IsFinite(MapGet(mapA, t)) }

RatioAt(t) == FMul(FDiv(MapGet(mapA, t), MapGet(mapB, t)), mult)

PeakOver(eligible) ==
  /\ peakOut.null <=> eligible = {}
  /\ ~peakOut.null =>
       /\ peakOut.ts \in MapKeys(mapA)
       /\ MapHas(mapB, peakOut.ts)
       /\ peakOut.numerator = MapGet(mapA, peakOut.ts)
       /\ peakOut.denominator = MapGet(mapB, peakOut.ts)
       /\ \A t \in eligible : FLe(RatioAt(t), peakOut.ratio)

\* C14 as stated: peakRatioDetails returns null iff no timestamp of the
\* numerator is in the denominator with a finite, non-zero denominator
\* value; otherwise its ratio is >= the ratio of every such timestamp and
\* its numerator and denominator are the series' values at its timestamp.
C14_PeakOverDenominatorEligible ==
  spc = "peak" => PeakOver(DenominatorEligible)

\* C14, amended: the same with the eligible timestamps being those whose
\* numerator value is finite too.
C14_PeakOverEligible ==
  spc = "peak" => PeakOver(Eligible)

\* Two eligible timestamps, the later-scanned one with the larger ratio,
\* which is the one returned.
C14_Witness ==
  /\ spc = "peak"
  /\ Cardinality(Eligible) = 2
  /\ ~peakOut.null
  /\ peakOut.ts = mapA[2].ts
  /\ FLt(RatioAt(mapA[1].ts), peakOut.ratio)

(***************************************************************************)
(* SpecAdvice: printRecommendations(summary) of the audit, on the metrics  *)
(* it reads.  Each is the stats of a series main() can hold; raw keeps the *)
(* three autoscaler series the stats were taken from.                      *)
(***************************************************************************)
ConstantSeries(n) == << Entry(1, Lit(n)), Entry(2, Lit(n)) >>
StatsOrNull(values) == { NullStats } \cup { statsFromMap(ConstantSeries(n)) : n \in values }

CpuWasteAverages == { 15, 16, 30, 31 }
MemWasteAverages == { 25, 26 }
DeploymentAverages == { 49, 50 }
CurrentReplicaSeries ==
  { EmptyMap, ConstantSeries(3), << Entry(1, Lit(2)), Entry(2, Lit(3)) >> }
BoundSeries == { <<ConstantSeries(3), ConstantSeries(3)>>,
                 <<ConstantSeries(2), ConstantSeries(5)>> }

ClusterSummaries ==
  [ cluster_cpu_waste_pct : StatsOrNull(CpuWasteAverages),
    cluster_mem_waste_pct : StatsOrNull(MemWasteAverages) ]

DeploymentSummaries ==
  [ deployment_cpu_used_vs_requests_pct : StatsOrNull(DeploymentAverages),
    deployment_mem_used_vs_requests_pct : StatsOrNull(DeploymentAverages) ]

HpaSummary(r) ==
  [ hpa_current_replicas |-> statsFromMap(r["hpa_current_replicas"]),
    hpa_min_replicas |-> statsFromMap(r["hpa_min_replicas"]),
    hpa_max_replicas |-> statsFromMap(r["hpa_max_replicas"]) ]

DInit ==
  /\ pc = "summary"
  /\ mode = "audit"
  /\ env = [apiKey |-> TRUE, appKey |-> TRUE]
  /\ args \in [help : {Undefined}, cluster : {Str(<<"p", "r", "o", "d">>)},
               deployment : DeploymentVals, out : {Undefined}]
  /\ queries = Catalog(mode, args)
  /\ req = [n \in Names(Catalog(mode, args)) |-> "fulfilled"]
  /\ stdout = <<>>
  /\ stderr = <<>>
  /\ exitCode = -1
  /\ exported = FALSE
  /\ sent = Requests(Catalog(mode, args))
  /\ IF Truthy(args.deployment)
     THEN /\ \E cur \in CurrentReplicaSeries, bounds \in BoundSeries :
               raw = [ hpa_current_replicas |-> cur,
                       hpa_min_replicas |-> bounds[1],
                       hpa_max_replicas |-> bounds[2] ]
          /\ \E c \in ClusterSummaries, d \in DeploymentSummaries :
               summaryMetrics = c @@ d @@ HpaSummary(raw)
     ELSE /\ raw = <<>>
          /\ summaryMetrics \in ClusterSummaries
  /\ derived = <<>>
  /\ capacityPlan = <<>>
  /\ printed = <<>>
  /\ WindowIdle
  /\ SeriesIdle
  /\ AggregateIdle
  /\ PeakIdle
  /\ PureIdle
  /\ GatherIdle

\* printRecommendations(summary)
Advise ==
  /\ pc = "summary"
  /\ stdout' = stdout \o RecommendationLines(summaryMetrics)
  /\ pc' = "advised"
  /\ UNCHANGED <<mode, env, args, queries, req, sent, stderr, exitCode, exported>>
  /\ UNCHANGED <<wvars, svars, gvars, pvars, kvars, hvars, evars>>

SpecAdvice == DInit /\ [][Advise]_vars

(***************************************************************************)
(* Claims about the audit's recommendations.                               *)
(***************************************************************************)
Printed(line) == \E i \in 1..Len(stdout) : stdout[i] = line
TimesPrinted(line) == Cardinality({ i \in 1..Len(stdout) : stdout[i] = line })

CpuWaste == summaryMetrics.cluster_cpu_waste_pct

\* C15: the two cluster CPU waste rules are decided on the average alone:
\* avg > 30 prints the reduce-requests line, 15 < avg <= 30 the moderate
\* line (so avg = 30 is moderate), avg <= 15 or null stats neither, and
\* the two are never printed together.
C15_CpuWasteBrackets ==
  pc = "advised" =>
    /\ Printed("reduce_cpu_requests") <=>
         (~CpuWaste.null /\ FLt(Lit(30), CpuWaste.avg))
    /\ Printed("moderate_cpu_waste") <=>
         (~CpuWaste.null /\ FLt(Lit(15), CpuWaste.avg) /\ FLe(CpuWaste.avg, Lit(30)))
    /\ ~(Printed("reduce_cpu_requests") /\ Printed("moderate_cpu_waste"))

\* The average is exactly 30 and the moderate line is the one printed.
C15_Witness ==
  /\ pc = "advised"
  /\ ~CpuWaste.null
  /\ CpuWaste.avg = Lit(30)
  /\ Printed("moderate_cpu_waste")
  /\ ~Printed("reduce_cpu_requests")

\* The autoscaler's minimum and maximum replica series hold the same value
\* at every timestamp of the window.
BoundsEqual ==
  /\ Truthy(args.deployment)
  /\ raw["hpa_min_replicas"] # EmptyMap
  /\ MapKeys(raw["hpa_min_replicas"]) = MapKeys(raw["hpa_max_replicas"])
  /\ \A t \in MapKeys(raw["hpa_min_replicas"]) :
       MapGet(raw["hpa_min_replicas"], t) = MapGet(raw["hpa_max_replicas"], t)

\* C16 as stated: whenever the autoscaler's minimum and maximum replica
\* series are equal across the whole window, the replicas-constant
\* recommendation is printed.
C16_ConstantWhenBoundsEqual ==
  (pc = "advised" /\ BoundsEqual) => Printed("replicas_constant")

\* C16, amended: the replicas-constant recommendation is printed exactly
\* when the run has a deployment target and the current-replica series has
\* stats whose max - min is 0, whatever the minimum and maximum series hold.
C16_ConstantWhenCurrentConstant ==
  pc = "advised" =>
    (Printed("replicas_constant") <=>
       /\ Truthy(args.deployment)
       /\ ~summaryMetrics.hpa_current_replicas.null
       /\ summaryMetrics.hpa_current_replicas.max =
            summaryMetrics.hpa_current_replicas.min)

\* The observed replicas stay at 3 while the autoscaler's bounds are 2 and
\* 5: the recommendation is printed.
C16_Witness ==
  /\ pc = "advised"
  /\ Truthy(args.deployment)
  /\ raw["hpa_current_replicas"] = ConstantSeries(3)
  /\ ~BoundsEqual
  /\ Printed("replicas_constant")

\* The rules of printRecommendations whose condition holds on the summary.
RulesFired ==
  LET avgOf(name) == Metric(summaryMetrics, name).avg
      has(name) == ~Metric(summaryMetrics, name).null
  IN  { rule \in { "reduce_cpu_requests", "moderate_cpu_waste",
                   "reduce_mem_requests", "reduce_deployment_cpu",
                   "reduce_deployment_mem", "replicas_constant" } :
          \/ rule = "reduce_cpu_requests" /\ has("cluster_cpu_waste_pct")
               /\ FLt(Lit(30), avgOf("cluster_cpu_waste_pct"))
          \/ rule = "moderate_cpu_waste" /\ has("cluster_cpu_waste_pct")
               /\ FLt(Lit(15), avgOf("cluster_cpu_waste_pct"))
               /\ FLe(avgOf("cluster_cpu_waste_pct"), Lit(30))
          \/ rule = "reduce_mem_requests" /\ has("cluster_mem_waste_pct")
               /\ FLt(Lit(25), avgOf("cluster_mem_waste_pct"))
          \/ rule = "reduce_deployment_cpu"
               /\ has("deployment_cpu_used_vs_requests_pct")
               /\ FLt(avgOf("deployment_cpu_used_vs_requests_pct"), Lit(50))
          \/ rule = "reduce_deployment_mem"
               /\ has("deployment_mem_used_vs_requests_pct")
               /\ FLt(avgOf("deployment_mem_used_vs_requests_pct"), Lit(50))
          \/ rule = "replicas_constant" /\ has("hpa_current_replicas")
               /\ Metric(summaryMetrics, "hpa_current_replicas").max =
                    Metric(summaryMetrics, "hpa_current_replicas").min }

NumberedLines ==
  { i \in 1..Len(stdout) :
      stdout[i] \notin { "", "savings_opportunities:", "no_savings", "note" } }

\* C17: the no-savings line is printed iff none of the rules fired; it is
\* never printed alongside a numbered recommendation, nor more than once.
C17_NoSavingsIffNoRuleFired ==
  pc = "advised" =>
    /\ Printed("no_savings") <=> RulesFired = {}
    /\ Printed("no_savings") => NumberedLines = {}
    /\ TimesPrinted("no_savings") <= 1
    /\ { stdout[i] : i \in NumberedLines } = RulesFired

\* No rule fires on a summary that does hold stats: the line is printed.
C17_Witness ==
  /\ pc = "advised"
  /\ Truthy(args.deployment)
  /\ ~CpuWaste.null
  /\ ~summaryMetrics.hpa_current_replicas.null
  /\ RulesFired = {}
  /\ TimesPrinted("no_savings") = 1

(***************************************************************************)
(* Claims about the catalog and the outcome of a run (checked under Spec). *)
(***************************************************************************)
ClusterCpuQueries ==
  { "cluster_cpu_usage_nano", "cluster_cpu_allocatable_cores",
    "cluster_cpu_requests_cores" }
ClusterMemQueries ==
  { "cluster_mem_usage_bytes", "cluster_mem_allocatable_bytes",
    "cluster_mem_requests_bytes" }

\* C18 as stated: the catalog built for a run always holds the cluster CPU
\* and the cluster memory queries for usage, allocatable and requested, in
\* both scripts and with or without a deployment target.
C18_ClusterCpuAndMemoryAlways ==
  pc = "gather" =>
    (ClusterCpuQueries \cup ClusterMemQueries) \subseteq Names(queries)

\* C18, amended: the catalog always holds the three cluster CPU queries;
\* it holds the three cluster memory queries in the audit, with or without
\* a deployment target, and none of them in the incident script.
C18_ClusterCpuAlwaysMemoryInAudit ==
  pc = "gather" =>
    /\ ClusterCpuQueries \subseteq Names(queries)
    /\ mode = "audit" => ClusterMemQueries \subseteq Names(queries)
    /\ mode = "incident" => ClusterMemQueries \cap Names(queries) = {}

\* An audit with a deployment target has dispatched its fifteen queries,
\* the six cluster ones among them.
C18_Witness ==
  /\ pc = "gather"
  /\ mode = "audit"
  /\ Truthy(args.deployment)
  /\ Len(queries) = 15
  /\ (ClusterCpuQueries \cup ClusterMemQueries) \subseteq DOMAIN req

Ended == pc \in { "done", "exited" }

\* A fatal error of the run: of its inputs, or of a query.
FatalInput ==
  MissingCredential \/ MissingCluster \/ parseTimeRange(wargs, wdefault, wnow).threw

ratioSeriesHeap(h, numeratorMap, denominatorMap, multiplier) ==
  Append(h, ratioSeries(h[numeratorMap], h[denominatorMap], multiplier))

\* diffSeries reads aMap.entries() and bMap.get(ts); its only writes are
\* output.set(...) on the Map it allocated.
diffSeriesHeap(h, aMap, bMap) ==
  Append(h, diffSeries(h[aMap], h[bMap]))

\* statsFromMap that sorts the Map it was handed instead of a copy.
statsFromMapHeap_sortsInPlace(h, map) ==
  [h EXCEPT ![map] = mapToSortedEntries(h[map])]

\* statsFromMap sorts [...map.entries()], a fresh array: no Map is written.
statsFromMapHeap(h, map) == h

\* The calls one run may make.
MaxCalls == 2

\* The raw Maps of a run: empty, in ascending and in descending insertion
\* order, with a zero and with a non-finite value.
PureMaps ==
  { EmptyMap,
    <<Entry(2, Lit(4)), Entry(1, Lit(2))>>,
    <<Entry(1, Lit(0)), Entry(2, Lit(2)), Entry(3, PosInf)>> }

PureMultipliers == {Lit(1), Percent}

HInit ==
  /\ heap \in [1..2 -> PureMaps]
  /\ collected = heap
  /\ calls = <<>>
  /\ WindowIdle
  /\ SeriesIdle
  /\ RunIdle
  /\ AggregateIdle
  /\ ReportIdle
  /\ PeakIdle
  /\ GatherIdle

Call(fn, operands, multiplier, result) ==
  [ fn |-> fn,
    operands |-> operands,
    held |-> [k \in 1..Len(operands) |-> heap[operands[k]]],
    multiplier |-> multiplier,
    result |-> result ]

CallRatio ==
  /\ Len(calls) < MaxCalls
  /\ \E numeratorMap, denominatorMap \in 1..Len(heap), multiplier \in PureMultipliers :
       /\ heap' = ratioSeriesHeap(heap, numeratorMap, denominatorMap, multiplier)
       /\ calls' = Append(calls, Call("ratioSeries", <<numeratorMap, denominatorMap>>,
                                      multiplier, heap'[Len(heap')]))
  /\ UNCHANGED <<collected, wvars, svars, rvars, gvars, pvars, kvars, evars>>

CallDiff ==
  /\ Len(calls) < MaxCalls
  /\ \E aMap, bMap \in 1..Len(heap) :
       /\ heap' = diffSeriesHeap(heap, aMap, bMap)
       /\ calls' = Append(calls, Call("diffSeries", <<aMap, bMap>>,
                                      Lit(1), heap'[Len(heap')]))
  /\ UNCHANGED <<collected, wvars, svars, rvars, gvars, pvars, kvars, evars>>

CallStats ==
  /\ Len(calls) < MaxCalls
  /\ \E map \in 1..Len(heap) :
       /\ heap' = statsFromMapHeap(heap, map)
       /\ calls' = Append(calls, Call("statsFromMap", <<map>>,
                                      Lit(1), statsFromMap(heap[map])))
  /\ UNCHANGED <<collected, wvars, svars, rvars, gvars, pvars, kvars, evars>>

SpecPure == HInit /\ [][CallRatio \/ CallDiff \/ CallStats]_vars

\* The same function called on the same Map objects with the same multiplier.
SameCall(c, d) ==
  /\ c.fn = d.fn
  /\ c.operands = d.operands
  /\ c.multiplier = d.multiplier

PastBarrier ==
  /\ ~Truthy(args.help)
  /\ \/ stdout # <<>>
     \/ pc \in {"writing", "done"}
     \/ exported
     \/ \E i \in 1..Len(stderr) :
          stderr[i].msg \in {"Invalid time value", "writeFile failed"}

\* C21: the gather is a barrier.  Whatever the order in which the responses
\* arrive, main() derives, summarises, plans or prints nothing before every
\* query of the catalog has completed successfully: while a request is in
\* flight or refused, no step after the await has run.
C21_NothingBeforeAllAnswered ==
  PastBarrier =>
    /\ queries # <<>>
    /\ \A n \in DOMAIN req : req[n] = "fulfilled"

\* The report of the fifteen-query audit is out, all fifteen answered.
C21_Witness ==
  /\ mode = "audit"
  /\ Len(queries) = 15
  /\ Cardinality(Answered) = 15
  /\ Printed("title")
  /\ pc = "done"

\* How many times fetch was called for catalog name n.
TimesSent(n) == Cardinality({ i \in 1..Len(sent) : sent[i] = n })

\* C22: within one run every catalog entry produces exactly one telemetry
\* request and none is issued again.  Before the dispatch no request is
\* out; from the dispatch on, fetch has been called once for each name of
\* the catalog, also for a name whose request failed, and the requests
\* never outnumber the catalog's entries.
C22_OneRequestPerEntry ==
  /\ Len(sent) <= Len(Catalog(mode, args))
  /\ \A n \in Names(Catalog(mode, args)) :
       TimesSent(n) = IF req = <<>> THEN 0 ELSE 1
  /\ \A n \in Refused : TimesSent(n) = 1
  /\ req # <<>> => Len(sent) = Len(queries)

\* A request of the thirteen-query incident catalog failed after others had
\* been answered, and the run ended on it.
C22_Witness ==
  /\ mode = "incident"
  /\ Len(sent) = 13
  /\ Cardinality(Refused) = 1
  /\ Cardinality(Answered) >= 2
  /\ pc = "exited"

(***************************************************************************)
(* SpecTermination: the runs of Spec with valid credentials, cluster and   *)
(* window, under the progress the runtime gives.  The event loop runs      *)
(* main() and settles fs.writeFile; fetch is called with no signal and no  *)
(* timer is set, so nothing in the program ends a request: a response      *)
(* comes only if the provider sends one.                                   *)
(***************************************************************************)
TInit ==
  /\ pc = "start"
  /\ mode \in {"audit", "incident"}
  /\ env = [apiKey |-> TRUE, appKey |-> TRUE]
  /\ args \in [help : HelpVals, cluster : {Str(<<"p", "r", "o", "d">>)},
               deployment : {Undefined}, out : OutVals]
  /\ queries = <<>>
  /\ req = <<>>
  /\ stdout = <<>>
  /\ stderr = <<>>
  /\ exitCode = -1
  /\ exported = FALSE
  /\ sent = <<>>
  /\ wpc = "input"
  /\ wargs = [from |-> Undefined, to |-> Undefined, window |-> Undefined]
  /\ wnow \in NowVals
  /\ wdefault = DefaultWindow(mode)
  /\ wrange = NoRange
  /\ SeriesIdle
  /\ ExtraIdle

SpecTermination ==
  /\ TInit
  /\ [][Main \/ Succeed \/ Refuse \/ WriteOk \/ WriteFail]_vars
  /\ WF_vars(Main)
  /\ WF_vars(WriteOk \/ WriteFail)

\* C23: every dispatched request is bounded by a timeout, so that also a
\* run whose provider never answers a request ends, with a report or with
\* an error exit.
C23_EveryRunTerminates == <>(pc \in {"done", "exited"})

(***************************************************************************)
(* SpecTuning: printTuningRecommendations(summary) of the incident script  *)
(* on the summaries that decide its steps.                                 *)
(***************************************************************************)
MemPeaks == { 100, 104 }
CpuPeaks == { 80, 88 }
UnavailablePeaks == { 5, 6 }
ReplicaPeaks == { 2, 3 }

TuningSummaries ==
  [ deployment_memory_used_vs_requests_pct : StatsOrNull(MemPeaks),
    deployment_cpu_used_vs_requests_pct : StatsOrNull(CpuPeaks),
    deployment_unavailable_pct : StatsOrNull(UnavailablePeaks),
    hpa_desired_replicas : StatsOrNull(ReplicaPeaks),
    hpa_current_replicas : StatsOrNull(ReplicaPeaks) ]

NInit ==
  /\ pc = "summary"
  /\ mode = "incident"
  /\ env = [apiKey |-> TRUE, appKey |-> TRUE]
  /\ args = [help |-> Undefined, cluster |-> Str(<<"p", "r", "o", "d">>),
             deployment |-> Undefined, out |-> Undefined]
  /\ queries = Catalog(mode, args)
  /\ req = [n \in Names(Catalog(mode, args)) |-> "fulfilled"]
  /\ stdout = <<>>
  /\ stderr = <<>>
  /\ exitCode = -1
  /\ exported = FALSE
  /\ sent = Requests(Catalog(mode, args))
  /\ raw = <<>>
  /\ summaryMetrics \in TuningSummaries
  /\ derived = <<>>
  /\ capacityPlan = <<>>
  /\ printed = <<>>
  /\ WindowIdle
  /\ SeriesIdle
  /\ AggregateIdle
  /\ PeakIdle
  /\ PureIdle
  /\ GatherIdle

\* printTuningRecommendations(summary)
Tune ==
  /\ pc = "summary"
  /\ mode = "incident"
  /\ stdout' = stdout \o TuningLines(summaryMetrics)
  /\ pc' = "advised"
  /\ UNCHANGED <<mode, env, args, queries, req, sent, stderr, exitCode, exported>>
  /\ UNCHANGED <<wvars, svars, gvars, pvars, kvars, hvars, evars>>

SpecTuning == NInit /\ [][Tune]_vars

\* The statistics of the steps, as the summary holds them.
MemPeak == summaryMetrics.deployment_memory_used_vs_requests_pct
CpuPeak == summaryMetrics.deployment_cpu_used_vs_requests_pct
UnavailablePeak == summaryMetrics.deployment_unavailable_pct
HpaGapPositive ==
  /\ ~summaryMetrics.hpa_desired_replicas.null
  /\ ~summaryMetrics.hpa_current_replicas.null
  /\ FGt(summaryMetrics.hpa_desired_replicas.max,
         summaryMetrics.hpa_current_replicas.max)
MemoryPressure == ~MemPeak.null /\ FGt(MemPeak.max, Lit(100))
CpuPressure == ~CpuPeak.null /\ FGt(CpuPeak.max, Lit(85))
Instability ==
  (~UnavailablePeak.null /\ FGt(UnavailablePeak.max, Lit(5))) \/ HpaGapPositive

\* The five step lines, in the order printed.
StepLines == SubSeq(stdout, 3, 7)

\* Steps one to three: a change is recommended exactly when the step's
\* statistic is over its threshold, and the setting is kept otherwise.
FirstThreeSteps ==
  /\ Len(stdout) = 9
  /\ stdout[2] = "recommended_step_order:"
  /\ StepLines[1] = IF MemoryPressure
                    THEN "1_lower_memory_target" ELSE "1_keep_memory_target"
  /\ StepLines[2] = IF CpuPressure
                    THEN "2_lower_cpu_target" ELSE "2_keep_cpu_target"
  /\ StepLines[3] = IF Instability
                    THEN "3_tune_scale_up" ELSE "3_keep_scale_up"

\* C24 as stated: incident mode prints the five steps in the order memory
\* target, CPU target, scale-up policy, baseline replica count, maximum
\* replica count, and each of the five recommends a change only when its
\* statistic is over its threshold: with no statistic over its threshold,
\* no step recommends an increase.
C24_EveryStepConditioned ==
  pc = "advised" =>
    /\ FirstThreeSteps
    /\ (~MemoryPressure /\ ~CpuPressure /\ ~Instability) =>
         /\ StepLines[4] # "4_replica_baseline"
         /\ StepLines[5] # "5_max_replicas"

\* C24, amended: incident mode prints the five steps in that order; steps
\* one to three are conditioned on their statistics (memory peak over 100,
\* CPU peak over 85, unavailable peak over 5 or desired replicas peaking
\* over current), and steps four and five are the same two lines in every
\* run, whatever the statistics.
C24_FirstThreeStepsConditioned ==
  pc = "advised" =>
    /\ FirstThreeSteps
    /\ StepLines[4] = "4_replica_baseline"
    /\ StepLines[5] = "5_max_replicas"

\* Memory and CPU are calm and the replica gap is zero, yet the
\* unavailable peak is over 5: step three alone recommends a change.
C24_Witness ==
  /\ pc = "advised"
  /\ ~MemoryPressure
  /\ ~CpuPressure
  /\ ~HpaGapPositive
  /\ Instability
  /\ StepLines[3] = "3_tune_scale_up"

(***************************************************************************)
(* The audit rules, one by one (SpecAdvice).                               *)
(***************************************************************************)
\* The rules in the order of the table.
RuleOrder ==
  << "reduce_cpu_requests", "moderate_cpu_waste", "reduce_mem_requests",
     "reduce_deployment_cpu", "reduce_deployment_mem", "replicas_constant" >>

RuleRank(rule) == CHOOSE k \in 1..Len(RuleOrder) : RuleOrder[k] = rule

\* C25: in audit mode no rule short-circuits another.  The message of each
\* of the rules cluster memory waste (avg > 25), deployment CPU (avg < 50),
\* deployment memory (avg < 50) and constant replicas (range == 0) is
\* printed, once, exactly when the rule's condition holds on its own
\* statistic, whichever other rules fired, and the messages printed follow
\* the order of the table.
C25_EachRuleOnItsOwn ==
  pc = "advised" =>
    /\ \A rule \in { "reduce_mem_requests", "reduce_deployment_cpu",
                     "reduce_deployment_mem", "replicas_constant" } :
         /\ Printed(rule) <=> rule \in RulesFired
         /\ TimesPrinted(rule) <= 1
    /\ \A i, j \in NumberedLines :
         i < j => RuleRank(stdout[i]) < RuleRank(stdout[j])

\* All four rules fired after the CPU waste rule had: five messages.
C25_Witness ==
  /\ pc = "advised"
  /\ Cardinality(NumberedLines) = 5
  /\ { "reduce_mem_requests", "reduce_deployment_cpu",
       "reduce_deployment_mem", "replicas_constant" } \subseteq RulesFired
  /\ Printed("replicas_constant")

(***************************************************************************)
(* Ties of the peak (SpecPeak).                                            *)
(***************************************************************************)
\* The place of timestamp t in the scan of the numerator Map.
ScanIndex(t) == CHOOSE i \in 1..Len(mapA) : mapA[i].ts = t

\* The eligible timestamps whose ratio is the returned one.
TiedAtPeak ==
  { t \in Eligible : ~FLt(RatioAt(t), peakOut.ratio) /\ ~FLt(peakOut.ratio, RatioAt(t)) }

\* C26: when several eligible timestamps tie for the maximum ratio,
\* peakRatioDetails keeps the first of them met in its scan of the numerator
\* series; a later one with an equal ratio never replaces it.
C26_FirstOfTiesInScanOrder ==
  (spc = "peak" /\ ~peakOut.null) =>
    /\ peakOut.ts \in TiedAtPeak
    /\ \A t \in TiedAtPeak : ScanIndex(peakOut.ts) <= ScanIndex(t)

\* Two eligible timestamps tie for the maximum; the one scanned first is
\* returned.
C26_Witness ==
  /\ spc = "peak"
  /\ ~peakOut.null
  /\ Cardinality(TiedAtPeak) = 2
  /\ ScanIndex(peakOut.ts) = 1

\* C27: the peak is determined by the content of the series: the numerator
\* Map scanned as inserted and the same Map with its entries in ascending
\* timestamp order give the same peak timestamp, and among tied timestamps
\* the earliest is the one returned.
C27_PeakIndependentOfInsertionOrder ==
  (spc = "peak" /\ ~peakOut.null) =>
    /\ peakOut.ts = peakRatioDetails(mapToSortedEntries(mapA), mapB, mult).ts
    /\ \A t \in TiedAtPeak : peakOut.ts <= t

(***************************************************************************)
(* SpecGather: the gather of main() with the data of the responses.  The   *)
(* i-th callback of Object.entries(queries).map(...) awaits datadogQuery   *)
(* for its own entry and returns [name, { query, points }]; Promise.all    *)
(* fulfils with these values in the order of the entries, whatever the     *)
(* order of arrival, and Object.fromEntries keys them by name.             *)
(***************************************************************************)
\* The body the provider answers the i-th query with: two tagged series.
ProviderSeries(i) ==
  << << Point(1, Lit(i)) >>, << Point(2, Lit(1)), Point(1, Lit(1)) >> >>

\* The i-th promise is still pending.
Pending == [name |-> "", points |-> EmptyMap, done |-> FALSE]

\* An entry that takes its name from a variable all callbacks share, which
\* holds the last name of the catalog by the time a response arrives.
EntryOf_sharedName(qs, i, map) ==
  [name |-> qs[Len(qs)], points |-> map, done |-> TRUE]

\* return [name, { query, points: map }]: name and query are the callback's
\* own parameters, map the Map its datadogQuery call built.
EntryOf(qs, i, map) == [name |-> qs[i], points |-> map, done |-> TRUE]

\* Object.fromEntries(entries): a later entry of the same key wins.
FromEntries(es) ==
  [ n \in { es[i].name : i \in 1..Len(es) } |->
      es[CHOOSE i \in 1..Len(es) :
           /\ es[i].name = n
           /\ \A j \in 1..Len(es) : es[j].name = n => j <= i].points ]

YInit ==
  /\ pc = "gather"
  /\ mode \in {"audit", "incident"}
  /\ env = [apiKey |-> TRUE, appKey |-> TRUE]
  /\ args = [help |-> Undefined, cluster |-> Str(<<"p", "r", "o", "d">>),
             deployment |-> Undefined, out |-> Undefined]
  /\ queries = Catalog(mode, args)
  /\ req = [n \in Names(Catalog(mode, args)) |-> "inflight"]
  /\ sent = Requests(Catalog(mode, args))
  /\ settled = [i \in 1..Len(Catalog(mode, args)) |-> Pending]
  /\ stdout = <<>>
  /\ stderr = <<>>
  /\ exitCode = -1
  /\ exported = FALSE
  /\ WindowIdle
  /\ SeriesIdle
  /\ AggregateIdle
  /\ ReportIdle
  /\ PeakIdle
  /\ PureIdle

\* The response to the i-th request arrives with a success status: the
\* callback's promise fulfils, and with the last of them Promise.all does.
Arrive(i) ==
  /\ pc = "gather"
  /\ ~settled[i].done
  /\ settled' = [settled EXCEPT
                   ![i] = EntryOf(queries, i, aggregateSeriesByTimestamp(ProviderSeries(i)))]
  /\ req' = [req EXCEPT ![queries[i]] = "fulfilled"]
  /\ IF \A j \in 1..Len(settled') : settled'[j].done
     THEN /\ raw' = FromEntries(settled')
          /\ pc' = "gathered"
     ELSE UNCHANGED <<raw, pc>>
  /\ UNCHANGED <<mode, env, args, queries, sent, stdout, stderr, exitCode, exported>>
  /\ UNCHANGED <<derived, summaryMetrics, capacityPlan, printed>>
  /\ UNCHANGED <<wvars, svars, gvars, kvars, hvars>>

\* The response to the i-th request arrives with a non-success status.
Fail(i) ==
  /\ pc = "gather"
  /\ ~settled[i].done
  /\ req' = [req EXCEPT ![queries[i]] = "rejected"]
  /\ Catch(ErrorLine("Datadog query failed", queries[i]))
  /\ UNCHANGED <<mode, env, args, queries, sent, settled>>
  /\ UNCHANGED <<pvars, wvars, svars, gvars, kvars, hvars>>

Arrivals == \E i \in 1..Len(settled) : Arrive(i)

Failures == \E i \in 1..Len(settled) : Fail(i)

SpecGather == YInit /\ [][Arrivals \/ Failures]_vars

\* The place of name n in the catalog.
CatalogIndex(n) == CHOOSE i \in 1..Len(queries) : queries[i] = n

\* C28: whatever the order in which the responses arrive, after a
\* successful gather the keys of raw are exactly the names of the catalog
\* and raw[name] is the series the provider returned for queries[name]; and
\* while the gather runs, the value of each fulfilled promise holds its own
\* name and its own series, untouched by the other queries.
C28_RawKeyedByOwnName ==
  /\ pc = "gathered" =>
       /\ DOMAIN raw = Names(queries)
       /\ \A n \in Names(queries) :
            raw[n] = aggregateSeriesByTimestamp(ProviderSeries(CatalogIndex(n)))
  /\ pc \in {"gather", "gathered"} =>
       \A i \in 1..Len(settled) :
         settled[i].done =>
           /\ settled[i].name = queries[i]
           /\ settled[i].points = aggregateSeriesByTimestamp(ProviderSeries(i))

\* The thirteen responses of the incident script have all arrived.
C28_Witness ==
  /\ pc = "gathered"
  /\ Len(queries) = 13
  /\ Cardinality(DOMAIN raw) = 13
  /\ raw["pending_pods"] # raw["cluster_cpu_usage_nano"]

(***************************************************************************)
(* SpecWaste: `const derived = {...}` of the audit on usage, requests and  *)
(* allocatable series that need not share their timestamps.  The memory    *)
(* series are the CPU ones (the usage is not divided by 1e9 there).        *)
(***************************************************************************)
WasteTimestamps == { 1, 2 }

\* A series sampled at the timestamps of at, inserted in descending order.
SampledAt(at, val) ==
  LET desc == << 2, 1 >>
      kept == SelectSeq(desc, LAMBDA t : t \in at)
  IN  [i \in 1..Len(kept) |-> Entry(kept[i], val)]

AllocatableMaps ==
  UNION { { m \in [1..Cardinality(at) -> [ts : at, val : {Lit(0), Lit(2), NaN}]] :
              \A i, j \in 1..Cardinality(at) : i < j => m[i].ts < m[j].ts } :
          at \in SUBSET WasteTimestamps }

QInit ==
  /\ pc = "gathered"
  /\ mode = "audit"
  /\ env = [apiKey |-> TRUE, appKey |-> TRUE]
  /\ args = [help |-> Undefined, cluster |-> Str(<<"p", "r", "o", "d">>),
             deployment |-> Undefined, out |-> Undefined]
  /\ queries = Catalog(mode, args)
  /\ req = [n \in Names(Catalog(mode, args)) |-> "fulfilled"]
  /\ sent = Requests(Catalog(mode, args))
  /\ stdout = <<>>
  /\ stderr = <<>>
  /\ exitCode = -1
  /\ exported = FALSE
  /\ \E used, requested \in SUBSET WasteTimestamps, allocatable \in AllocatableMaps :
       raw = [ cluster_cpu_usage_nano |-> SampledAt(used, Lit(1)),
               cluster_cpu_requests_cores |-> SampledAt(requested, Lit(3)),
               cluster_cpu_allocatable_cores |-> allocatable,
               cluster_mem_usage_bytes |-> SampledAt(used, Lit(1)),
               cluster_mem_requests_bytes |-> SampledAt(requested, Lit(3)),
               cluster_mem_allocatable_bytes |-> allocatable,
               cluster_node_count |-> SampleSeries ]
  /\ derived = <<>>
  /\ summaryMetrics = <<>>
  /\ capacityPlan = <<>>
  /\ printed = <<>>
  /\ WindowIdle
  /\ SeriesIdle
  /\ AggregateIdle
  /\ PeakIdle
  /\ PureIdle
  /\ GatherIdle

\* main, from `const raw` to `const derived = {...}`.
Derive ==
  /\ pc = "gathered"
  /\ mode = "audit"
  /\ derived' = AuditDerived(raw, args)
  /\ pc' = "derived"
  /\ UNCHANGED <<mode, env, args, queries, req, sent, stdout, stderr, exitCode, exported>>
  /\ UNCHANGED <<raw, summaryMetrics, capacityPlan, printed>>
  /\ UNCHANGED <<wvars, svars, gvars, kvars, hvars, evars>>

SpecWaste == QInit /\ [][Derive]_vars

\* The timestamps present in the three raw series, the third non-zero.
InAllThree(usage, requests, allocatable) ==
  { t \in MapKeys(raw[usage]) \cap MapKeys(raw[requests]) \cap MapKeys(raw[allocatable]) :
      ~IsZero(MapGet(raw[allocatable], t)) }

WasteIsDifference(waste, requested, used, keys) ==
  /\ MapKeys(derived[waste]) = keys
  /\ Len(derived[waste]) = Cardinality(keys)
  /\ \A t \in keys :
       MapGet(derived[waste], t) =
         FSub(MapGet(derived[requested], t), MapGet(derived[used], t))

\* C29: in audit mode the timestamps of cluster_cpu_waste_pct are exactly
\* those present in the raw CPU usage, CPU requests and CPU allocatable
\* series with a non-zero allocatable value; at each the waste is
\* requested_pct[t] - used_pct[t]; a timestamp missing from one of the
\* three yields no waste sample.  Likewise for memory.
C29_WasteWhereAllThreeSampled ==
  pc = "derived" =>
    /\ WasteIsDifference("cluster_cpu_waste_pct", "cluster_cpu_requested_pct",
                         "cluster_cpu_used_pct",
                         InAllThree("cluster_cpu_usage_nano", "cluster_cpu_requests_cores",
                                    "cluster_cpu_allocatable_cores"))
    /\ WasteIsDifference("cluster_mem_waste_pct", "cluster_mem_requested_pct",
                         "cluster_mem_used_pct",
                         InAllThree("cluster_mem_usage_bytes", "cluster_mem_requests_bytes",
                                    "cluster_mem_allocatable_bytes"))

\* Requests and allocatable were sampled at both timestamps, the usage at
\* one only: the memory waste has that one sample.
C29_Witness ==
  /\ pc = "derived"
  /\ MapKeys(raw["cluster_mem_requests_bytes"]) = WasteTimestamps
  /\ MapKeys(derived["cluster_mem_requested_pct"]) = WasteTimestamps
  /\ Cardinality(MapKeys(raw["cluster_mem_usage_bytes"])) = 1
  /\ MapKeys(derived["cluster_mem_waste_pct"]) = MapKeys(raw["cluster_mem_usage_bytes"])
  /\ \E t \in MapKeys(derived["cluster_mem_waste_pct"]) :
       IsFinite(MapGet(derived["cluster_mem_waste_pct"], t))

(***************************************************************************)
(* SpecCapacity: the incident report on CPU requests and allocatable       *)
(* series that need not share their timestamps, the allocatable values     *)
(* being 0, 2 or Infinity (a JSON number such as 1e999).                   *)
(***************************************************************************)
CapacityAllocatable ==
  UNION { { m \in [1..Cardinality(at) -> [ts : at, val : {Lit(0), Lit(2), PosInf}]] :
              \A i, j \in 1..Cardinality(at) : i < j => m[i].ts < m[j].ts } :
          at \in SUBSET WasteTimestamps }

CapacityRequests ==
  { SampledAt(at, val) : at \in SUBSET WasteTimestamps, val \in {Lit(1), Lit(3)} }

CInit ==
  /\ pc = "gathered"
  /\ mode = "incident"
  /\ env = [apiKey |-> TRUE, appKey |-> TRUE]
  /\ args = [help |-> Undefined, cluster |-> Str(<<"p", "r", "o", "d">>),
             deployment |-> Undefined, out |-> Undefined]
  /\ queries = Catalog(mode, args)
  /\ req = [n \in Names(Catalog(mode, args)) |-> "fulfilled"]
  /\ sent = Requests(Catalog(mode, args))
  /\ stdout = <<>>
  /\ stderr = <<>>
  /\ exitCode = -1
  /\ exported = FALSE
  /\ wpc = "resolved"
  /\ wargs = [from |-> Undefined, to |-> Undefined, window |-> Undefined]
  /\ wnow \in NowVals
  /\ wdefault = DefaultWindow(mode)
  /\ wrange = parseTimeRange(wargs, wdefault, wnow)
  /\ \E requested \in CapacityRequests, allocatable \in CapacityAllocatable :
       raw = [ n \in Names(Catalog(mode, args)) |->
                 IF n = "cluster_cpu_requests_cores" THEN requested
                 ELSE IF n = "cluster_cpu_allocatable_cores" THEN allocatable
                 ELSE SampleSeries ]
  /\ derived = <<>>
  /\ summaryMetrics = <<>>
  /\ capacityPlan = <<>>
  /\ printed = <<>>
  /\ SeriesIdle
  /\ AggregateIdle
  /\ PeakIdle
  /\ PureIdle
  /\ GatherIdle

SpecCapacity == CInit /\ [][PrintReport]_vars

\* C30: in incident mode the capacity plan agrees with the statistics of
\* cluster_cpu_requested_pct, computed from the same two raw series: the
\* plan is null iff the statistics are null, and otherwise its
\* peakRequestedPct is the statistics' max.
C30_PlanAgreesWithRequestedPct ==
  pc = "done" =>
    /\ capacityPlan.null <=> summaryMetrics.cluster_cpu_requested_pct.null
    /\ ~capacityPlan.null =>
         capacityPlan.peakRequestedPct = summaryMetrics.cluster_cpu_requested_pct.max

====
